---- MODULE Spec2Model ----
(***************************************************************************)
(* Model of the ELP dashboard data pipelines:                              *)
(*   - the CSV pipeline   (csv_to_json_optimized.py)                       *)
(*   - the API pipeline   (update_data.py)                                 *)
(*                                                                         *)
(* Representation choices                                                  *)
(*   - a Python dict that is iterated (monthly_data, state_data,           *)
(*     state_monthly) is a sequence of entries in insertion order, because *)
(*     sorted(), max() and list.sort() are stable / first-wins over that   *)
(*     order; a dict that is only looked up (elp_violations, state_map) is *)
(*     a function;                                                         *)
(*   - a missing field (None) and an empty string are both "": every read  *)
(*     in the source is  row.get(A) or row.get(a) [or '']  followed by a   *)
(*     truthiness test, which does not tell them apart;                    *)
(*   - a text the source strips, case-folds or parses (part, section,      *)
(*     indicator, description, answer, date) is the sequence of the        *)
(*     Unicode code points of its characters; an absent text is <<>>;      *)
(*   - a "YYYY-MM" key is the number year * 100 + month; MonthKey gives    *)
(*     its text, in whose order the keys are sorted; a month label         *)
(*     ("%b %y") is [b, y], the month and the last two digits of the year; *)
(*   - a value rounded to one decimal is an integer number of tenths, the  *)
(*     one round(x, 1) gives on the double x the source computes.          *)
(***************************************************************************)
EXTENDS Integers, Sequences, FiniteSets, TLC

VARIABLES
    mode,             \* which program runs: "csv", "api", "fetch", "stats", ...
    pc,               \* position in that program
    vrows,            \* csv: violation rows read so far, in file order
    elp_violations,   \* csv: load_elp_violations' dict inspection_id -> is_elp_oos
    irows,            \* csv: inspection rows read so far, in file order
    all_violations,   \* api: fetch_all_elp_data's list of ELP violations
    vbatch,           \* api: batch_num of fetch_all_elp_data's loop
    state_map,        \* api: identifier -> region (fetch_inspection_states)
    violations,       \* api: violations_with_states, input of process_violations
    vidx,             \* api: number of violations process_violations has consumed
    monthly_data,     \* MonthlyBucket table, insertion order
    state_data,       \* RegionBucket table, insertion order
    state_monthly,    \* RegionMonthlyBucket table, insertion order (both levels)
    total_oos,
    total_all,
    result,           \* the aggregate snapshot, NoResult before finalization
    target_ids,       \* fetch: set(unique_ids)
    batch_num,        \* fetch: loop counter of fetch_inspection_states
    offset,           \* fetch: $offset of the next request
    observed,         \* fetch: inspection rows received so far, in order
    stop,             \* fetch: why the loop ended ("" while it runs)
    request           \* the last request of a pagination loop: [n, offset, ok],
                      \* n the number of requests issued so far

vars == <<mode, pc, vrows, elp_violations, irows, all_violations, vbatch,
          state_map, violations, vidx, monthly_data, state_data,
          state_monthly, total_oos, total_all, result, target_ids,
          batch_num, offset, observed, stop, request>>

(***************************************************************************)
(* Bounds of the model                                                     *)
(***************************************************************************)
MaxViolRows == 2
MaxInspRows == 2
\* rows the inspections dataset serves to fetch_inspection_states
MaxSourceRows == 3
\* state x month cells of the tables the statistics are derived from
MaxCells == 4

(***************************************************************************)
(* Generic helpers                                                         *)
(***************************************************************************)
EmptyMap == [x \in {} |-> TRUE]

Range(s) == {s[i] : i \in DOMAIN s}

RECURSIVE SumSeq(_)
SumSeq(s) == IF s = <<>> THEN 0 ELSE Head(s) + SumSeq(Tail(s))


\* the permutations of a sequence
SeqPerms(s) ==
    {[i \in 1..Len(s) |-> s[p[i]]] : p \in Permutations(1..Len(s))}

(***************************************************************************)
(* Ordered dicts of {"oos", "all"} buckets                                 *)
(***************************************************************************)
Has(d, k) == \E i \in DOMAIN d : d[i].k = k

Idx(d, k) == CHOOSE i \in DOMAIN d : d[i].k = k

Keys(d) == {d[i].k : i \in DOMAIN d}

\* d[k] of a defaultdict(lambda: {"oos": 0, "all": 0}), read only
Bucket(d, k) == IF Has(d, k) THEN d[Idx(d, k)] ELSE [k |-> k, oos |-> 0, all |-> 0]

\* the defaultdict after d[k] was read: a missing key is inserted with the
\* default bucket
Touch(d, k) == IF Has(d, k) THEN d ELSE Append(d, [k |-> k, oos |-> 0, all |-> 0])

\* d[k]["all"] += 1
IncrAll(d, k) ==
    IF Has(d, k) THEN [d EXCEPT ![Idx(d, k)].all = @ + 1]
    ELSE Append(d, [k |-> k, oos |-> 0, all |-> 1])

\* d[k]["oos"] += 1
IncrOos(d, k) ==
    IF Has(d, k) THEN [d EXCEPT ![Idx(d, k)].oos = @ + 1]
    ELSE Append(d, [k |-> k, oos |-> 1, all |-> 0])

\* state_monthly[state]: defaultdict of defaultdicts
Inner(sm, s) == IF Has(sm, s) THEN sm[Idx(sm, s)].v ELSE <<>>

\* state_monthly[state][year_month]["all"] += 1
IncrAll2(sm, s, ym) ==
    IF Has(sm, s) THEN [sm EXCEPT ![Idx(sm, s)].v = IncrAll(@, ym)]
    ELSE Append(sm, [k |-> s, v |-> IncrAll(<<>>, ym)])

\* state_monthly[state][year_month]["oos"] += 1
IncrOos2(sm, s, ym) ==
    IF Has(sm, s) THEN [sm EXCEPT ![Idx(sm, s)].v = IncrOos(@, ym)]
    ELSE Append(sm, [k |-> s, v |-> IncrOos(<<>>, ym)])

\* the five accumulators of a run
EmptyTables ==
    [monthly_data |-> <<>>, state_data |-> <<>>, state_monthly |-> <<>>,
     total_oos |-> 0, total_all |-> 0]

(***************************************************************************)
(* Texts.  A text is the sequence of the Unicode code points of its        *)
(* characters; the tables are those of the Unicode character database the  *)
(* interpreter of the source carries (Python 3.11, Unicode 14.0.0).        *)
(***************************************************************************)
\* the printable ASCII characters U+0020..U+005F in order
PrintableLow == <<
    " ", "!", "\"", "#", "$", "%", "&", "'", "(", ")", "*", "+", ",", "-", ".", "/",
    "0", "1", "2", "3", "4", "5", "6", "7", "8", "9", ":", ";", "<", "=", ">", "?",
    "@", "A", "B", "C", "D", "E", "F", "G", "H", "I", "J", "K", "L", "M", "N", "O",
    "P", "Q", "R", "S", "T", "U", "V", "W", "X", "Y", "Z", "[", "\\", "]", "^", "_">>

\* the printable ASCII characters U+0061..U+007E in order
PrintableHigh == <<
    "a", "b", "c", "d", "e", "f", "g", "h", "i", "j", "k", "l", "m", "n", "o",
    "p", "q", "r", "s", "t", "u", "v", "w", "x", "y", "z", "{", "|", "}", "~">>

\* ord(ch) of a printable ASCII character
Ord(ch) ==
    IF \E i \in 1..Len(PrintableLow) : PrintableLow[i] = ch
    THEN 31 + (CHOOSE i \in 1..Len(PrintableLow) : PrintableLow[i] = ch)
    ELSE 96 + (CHOOSE i \in 1..Len(PrintableHigh) : PrintableHigh[i] = ch)

\* the text that a sequence of printable ASCII characters spells
Text(s) == [i \in 1..Len(s) |-> Ord(s[i])]

\* c lies in one of the intervals <<first, last>>
InRanges(c, intervals) == \E a \in intervals : a[1] <= c /\ c <= a[2]

\* the rules <<first, last, step, delta>> that hold for c: every step-th
\* code point from first to last maps to itself + delta
RulesFor(c, rules) ==
    {r \in rules : r[1] <= c /\ c <= r[2] /\ (c - r[1]) % r[3] = 0}

\* the characters with a one-character upper case that is not themselves
UpperRules == {
    <<97, 122, 1, -32>>, <<181, 181, 1, 743>>, <<224, 246, 1, -32>>,
    <<248, 254, 1, -32>>, <<255, 255, 1, 121>>, <<257, 303, 2, -1>>,
    <<305, 305, 1, -232>>, <<307, 311, 2, -1>>, <<314, 328, 2, -1>>,
    <<331, 375, 2, -1>>, <<378, 382, 2, -1>>, <<383, 383, 1, -300>>,
    <<384, 384, 1, 195>>, <<387, 389, 2, -1>>, <<392, 392, 1, -1>>,
    <<396, 396, 1, -1>>, <<402, 402, 1, -1>>, <<405, 405, 1, 97>>,
    <<409, 409, 1, -1>>, <<410, 410, 1, 163>>, <<414, 414, 1, 130>>,
    <<417, 421, 2, -1>>, <<424, 424, 1, -1>>, <<429, 429, 1, -1>>,
    <<432, 432, 1, -1>>, <<436, 438, 2, -1>>, <<441, 441, 1, -1>>,
    <<445, 445, 1, -1>>, <<447, 447, 1, 56>>, <<453, 453, 1, -1>>,
    <<454, 454, 1, -2>>, <<456, 456, 1, -1>>, <<457, 457, 1, -2>>,
    <<459, 459, 1, -1>>, <<460, 460, 1, -2>>, <<462, 476, 2, -1>>,
    <<477, 477, 1, -79>>, <<479, 495, 2, -1>>, <<498, 498, 1, -1>>,
    <<499, 499, 1, -2>>, <<501, 501, 1, -1>>, <<505, 543, 2, -1>>,
    <<547, 563, 2, -1>>, <<572, 572, 1, -1>>, <<575, 576, 1, 10815>>,
    <<578, 578, 1, -1>>, <<583, 591, 2, -1>>, <<592, 592, 1, 10783>>,
    <<593, 593, 1, 10780>>, <<594, 594, 1, 10782>>, <<595, 595, 1, -210>>,
    <<596, 596, 1, -206>>, <<598, 599, 1, -205>>, <<601, 601, 1, -202>>,
    <<603, 603, 1, -203>>, <<604, 604, 1, 42319>>, <<608, 608, 1, -205>>,
    <<609, 609, 1, 42315>>, <<611, 611, 1, -207>>, <<613, 613, 1, 42280>>,
    <<614, 614, 1, 42308>>, <<616, 616, 1, -209>>, <<617, 617, 1, -211>>,
    <<618, 618, 1, 42308>>, <<619, 619, 1, 10743>>, <<620, 620, 1, 42305>>,
    <<623, 623, 1, -211>>, <<625, 625, 1, 10749>>, <<626, 626, 1, -213>>,
    <<629, 629, 1, -214>>, <<637, 637, 1, 10727>>, <<640, 640, 1, -218>>,
    <<642, 642, 1, 42307>>, <<643, 643, 1, -218>>, <<647, 647, 1, 42282>>,
    <<648, 648, 1, -218>>, <<649, 649, 1, -69>>, <<650, 651, 1, -217>>,
    <<652, 652, 1, -71>>, <<658, 658, 1, -219>>, <<669, 669, 1, 42261>>,
    <<670, 670, 1, 42258>>, <<837, 837, 1, 84>>, <<881, 883, 2, -1>>,
    <<887, 887, 1, -1>>, <<891, 893, 1, 130>>, <<940, 940, 1, -38>>,
    <<941, 943, 1, -37>>, <<945, 961, 1, -32>>, <<962, 962, 1, -31>>,
    <<963, 971, 1, -32>>, <<972, 972, 1, -64>>, <<973, 974, 1, -63>>,
    <<976, 976, 1, -62>>, <<977, 977, 1, -57>>, <<981, 981, 1, -47>>,
    <<982, 982, 1, -54>>, <<983, 983, 1, -8>>, <<985, 1007, 2, -1>>,
    <<1008, 1008, 1, -86>>, <<1009, 1009, 1, -80>>, <<1010, 1010, 1, 7>>,
    <<1011, 1011, 1, -116>>, <<1013, 1013, 1, -96>>, <<1016, 1016, 1, -1>>,
    <<1019, 1019, 1, -1>>, <<1072, 1103, 1, -32>>, <<1104, 1119, 1, -80>>,
    <<1121, 1153, 2, -1>>, <<1163, 1215, 2, -1>>, <<1218, 1230, 2, -1>>,
    <<1231, 1231, 1, -15>>, <<1233, 1327, 2, -1>>, <<1377, 1414, 1, -48>>,
    <<4304, 4346, 1, 3008>>, <<4349, 4351, 1, 3008>>, <<5112, 5117, 1, -8>>,
    <<7296, 7296, 1, -6254>>, <<7297, 7297, 1, -6253>>, <<7298, 7298, 1, -6244>>,
    <<7299, 7300, 1, -6242>>, <<7301, 7301, 1, -6243>>, <<7302, 7302, 1, -6236>>,
    <<7303, 7303, 1, -6181>>, <<7304, 7304, 1, 35266>>, <<7545, 7545, 1, 35332>>,
    <<7549, 7549, 1, 3814>>, <<7566, 7566, 1, 35384>>, <<7681, 7829, 2, -1>>,
    <<7835, 7835, 1, -59>>, <<7841, 7935, 2, -1>>, <<7936, 7943, 1, 8>>,
    <<7952, 7957, 1, 8>>, <<7968, 7975, 1, 8>>, <<7984, 7991, 1, 8>>,
    <<8000, 8005, 1, 8>>, <<8017, 8023, 2, 8>>, <<8032, 8039, 1, 8>>,
    <<8048, 8049, 1, 74>>, <<8050, 8053, 1, 86>>, <<8054, 8055, 1, 100>>,
    <<8056, 8057, 1, 128>>, <<8058, 8059, 1, 112>>, <<8060, 8061, 1, 126>>,
    <<8112, 8113, 1, 8>>, <<8126, 8126, 1, -7205>>, <<8144, 8145, 1, 8>>,
    <<8160, 8161, 1, 8>>, <<8165, 8165, 1, 7>>, <<8526, 8526, 1, -28>>,
    <<8560, 8575, 1, -16>>, <<8580, 8580, 1, -1>>, <<9424, 9449, 1, -26>>,
    <<11312, 11359, 1, -48>>, <<11361, 11361, 1, -1>>, <<11365, 11365, 1, -10795>>,
    <<11366, 11366, 1, -10792>>, <<11368, 11372, 2, -1>>, <<11379, 11379, 1, -1>>,
    <<11382, 11382, 1, -1>>, <<11393, 11491, 2, -1>>, <<11500, 11502, 2, -1>>,
    <<11507, 11507, 1, -1>>, <<11520, 11557, 1, -7264>>, <<11559, 11559, 1, -7264>>,
    <<11565, 11565, 1, -7264>>, <<42561, 42605, 2, -1>>, <<42625, 42651, 2, -1>>,
    <<42787, 42799, 2, -1>>, <<42803, 42863, 2, -1>>, <<42874, 42876, 2, -1>>,
    <<42879, 42887, 2, -1>>, <<42892, 42892, 1, -1>>, <<42897, 42899, 2, -1>>,
    <<42900, 42900, 1, 48>>, <<42903, 42921, 2, -1>>, <<42933, 42947, 2, -1>>,
    <<42952, 42954, 2, -1>>, <<42961, 42961, 1, -1>>, <<42967, 42969, 2, -1>>,
    <<42998, 42998, 1, -1>>, <<43859, 43859, 1, -928>>, <<43888, 43967, 1, -38864>>,
    <<65345, 65370, 1, -32>>, <<66600, 66639, 1, -40>>, <<66776, 66811, 1, -40>>,
    <<66967, 67003, 2, -39>>, <<66968, 66976, 2, -39>>, <<66980, 66992, 2, -39>>,
    <<66996, 67000, 2, -39>>, <<67004, 67004, 1, -39>>, <<68800, 68850, 1, -64>>,
    <<71872, 71903, 1, -32>>, <<93792, 93823, 1, -32>>, <<125218, 125251, 1, -34>>}
\* the characters whose upper case is several characters
UpperSpecial == {
    <<223, <<83, 83>>>>, <<329, <<700, 78>>>>, <<496, <<74, 780>>>>,
    <<912, <<921, 776, 769>>>>, <<944, <<933, 776, 769>>>>, <<1415, <<1333, 1362>>>>,
    <<7830, <<72, 817>>>>, <<7831, <<84, 776>>>>, <<7832, <<87, 778>>>>,
    <<7833, <<89, 778>>>>, <<7834, <<65, 702>>>>, <<8016, <<933, 787>>>>,
    <<8018, <<933, 787, 768>>>>, <<8020, <<933, 787, 769>>>>, <<8022, <<933, 787, 834>>>>,
    <<8064, <<7944, 921>>>>, <<8065, <<7945, 921>>>>, <<8066, <<7946, 921>>>>,
    <<8067, <<7947, 921>>>>, <<8068, <<7948, 921>>>>, <<8069, <<7949, 921>>>>,
    <<8070, <<7950, 921>>>>, <<8071, <<7951, 921>>>>, <<8072, <<7944, 921>>>>,
    <<8073, <<7945, 921>>>>, <<8074, <<7946, 921>>>>, <<8075, <<7947, 921>>>>,
    <<8076, <<7948, 921>>>>, <<8077, <<7949, 921>>>>, <<8078, <<7950, 921>>>>,
    <<8079, <<7951, 921>>>>, <<8080, <<7976, 921>>>>, <<8081, <<7977, 921>>>>,
    <<8082, <<7978, 921>>>>, <<8083, <<7979, 921>>>>, <<8084, <<7980, 921>>>>,
    <<8085, <<7981, 921>>>>, <<8086, <<7982, 921>>>>, <<8087, <<7983, 921>>>>,
    <<8088, <<7976, 921>>>>, <<8089, <<7977, 921>>>>, <<8090, <<7978, 921>>>>,
    <<8091, <<7979, 921>>>>, <<8092, <<7980, 921>>>>, <<8093, <<7981, 921>>>>,
    <<8094, <<7982, 921>>>>, <<8095, <<7983, 921>>>>, <<8096, <<8040, 921>>>>,
    <<8097, <<8041, 921>>>>, <<8098, <<8042, 921>>>>, <<8099, <<8043, 921>>>>,
    <<8100, <<8044, 921>>>>, <<8101, <<8045, 921>>>>, <<8102, <<8046, 921>>>>,
    <<8103, <<8047, 921>>>>, <<8104, <<8040, 921>>>>, <<8105, <<8041, 921>>>>,
    <<8106, <<8042, 921>>>>, <<8107, <<8043, 921>>>>, <<8108, <<8044, 921>>>>,
    <<8109, <<8045, 921>>>>, <<8110, <<8046, 921>>>>, <<8111, <<8047, 921>>>>,
    <<8114, <<8122, 921>>>>, <<8115, <<913, 921>>>>, <<8116, <<902, 921>>>>,
    <<8118, <<913, 834>>>>, <<8119, <<913, 834, 921>>>>, <<8124, <<913, 921>>>>,
    <<8130, <<8138, 921>>>>, <<8131, <<919, 921>>>>, <<8132, <<905, 921>>>>,
    <<8134, <<919, 834>>>>, <<8135, <<919, 834, 921>>>>, <<8140, <<919, 921>>>>,
    <<8146, <<921, 776, 768>>>>, <<8147, <<921, 776, 769>>>>, <<8150, <<921, 834>>>>,
    <<8151, <<921, 776, 834>>>>, <<8162, <<933, 776, 768>>>>, <<8163, <<933, 776, 769>>>>,
    <<8164, <<929, 787>>>>, <<8166, <<933, 834>>>>, <<8167, <<933, 776, 834>>>>,
    <<8178, <<8186, 921>>>>, <<8179, <<937, 921>>>>, <<8180, <<911, 921>>>>,
    <<8182, <<937, 834>>>>, <<8183, <<937, 834, 921>>>>, <<8188, <<937, 921>>>>,
    <<64256, <<70, 70>>>>, <<64257, <<70, 73>>>>, <<64258, <<70, 76>>>>,
    <<64259, <<70, 70, 73>>>>, <<64260, <<70, 70, 76>>>>, <<64261, <<83, 84>>>>,
    <<64262, <<83, 84>>>>, <<64275, <<1348, 1350>>>>, <<64276, <<1348, 1333>>>>,
    <<64277, <<1348, 1339>>>>, <<64278, <<1358, 1350>>>>, <<64279, <<1348, 1341>>>>}
\* the characters with a one-character lower case that is not themselves
LowerRules == {
    <<65, 90, 1, 32>>, <<192, 214, 1, 32>>, <<216, 222, 1, 32>>,
    <<256, 302, 2, 1>>, <<306, 310, 2, 1>>, <<313, 327, 2, 1>>,
    <<330, 374, 2, 1>>, <<376, 376, 1, -121>>, <<377, 381, 2, 1>>,
    <<385, 385, 1, 210>>, <<386, 388, 2, 1>>, <<390, 390, 1, 206>>,
    <<391, 391, 1, 1>>, <<393, 394, 1, 205>>, <<395, 395, 1, 1>>,
    <<398, 398, 1, 79>>, <<399, 399, 1, 202>>, <<400, 400, 1, 203>>,
    <<401, 401, 1, 1>>, <<403, 403, 1, 205>>, <<404, 404, 1, 207>>,
    <<406, 406, 1, 211>>, <<407, 407, 1, 209>>, <<408, 408, 1, 1>>,
    <<412, 412, 1, 211>>, <<413, 413, 1, 213>>, <<415, 415, 1, 214>>,
    <<416, 420, 2, 1>>, <<422, 422, 1, 218>>, <<423, 423, 1, 1>>,
    <<425, 425, 1, 218>>, <<428, 428, 1, 1>>, <<430, 430, 1, 218>>,
    <<431, 431, 1, 1>>, <<433, 434, 1, 217>>, <<435, 437, 2, 1>>,
    <<439, 439, 1, 219>>, <<440, 440, 1, 1>>, <<444, 444, 1, 1>>,
    <<452, 452, 1, 2>>, <<453, 453, 1, 1>>, <<455, 455, 1, 2>>,
    <<456, 456, 1, 1>>, <<458, 458, 1, 2>>, <<459, 475, 2, 1>>,
    <<478, 494, 2, 1>>, <<497, 497, 1, 2>>, <<498, 500, 2, 1>>,
    <<502, 502, 1, -97>>, <<503, 503, 1, -56>>, <<504, 542, 2, 1>>,
    <<544, 544, 1, -130>>, <<546, 562, 2, 1>>, <<570, 570, 1, 10795>>,
    <<571, 571, 1, 1>>, <<573, 573, 1, -163>>, <<574, 574, 1, 10792>>,
    <<577, 577, 1, 1>>, <<579, 579, 1, -195>>, <<580, 580, 1, 69>>,
    <<581, 581, 1, 71>>, <<582, 590, 2, 1>>, <<880, 882, 2, 1>>,
    <<886, 886, 1, 1>>, <<895, 895, 1, 116>>, <<902, 902, 1, 38>>,
    <<904, 906, 1, 37>>, <<908, 908, 1, 64>>, <<910, 911, 1, 63>>,
    <<913, 929, 1, 32>>, <<931, 939, 1, 32>>, <<975, 975, 1, 8>>,
    <<984, 1006, 2, 1>>, <<1012, 1012, 1, -60>>, <<1015, 1015, 1, 1>>,
    <<1017, 1017, 1, -7>>, <<1018, 1018, 1, 1>>, <<1021, 1023, 1, -130>>,
    <<1024, 1039, 1, 80>>, <<1040, 1071, 1, 32>>, <<1120, 1152, 2, 1>>,
    <<1162, 1214, 2, 1>>, <<1216, 1216, 1, 15>>, <<1217, 1229, 2, 1>>,
    <<1232, 1326, 2, 1>>, <<1329, 1366, 1, 48>>, <<4256, 4293, 1, 7264>>,
    <<4295, 4295, 1, 7264>>, <<4301, 4301, 1, 7264>>, <<5024, 5103, 1, 38864>>,
    <<5104, 5109, 1, 8>>, <<7312, 7354, 1, -3008>>, <<7357, 7359, 1, -3008>>,
    <<7680, 7828, 2, 1>>, <<7838, 7838, 1, -7615>>, <<7840, 7934, 2, 1>>,
    <<7944, 7951, 1, -8>>, <<7960, 7965, 1, -8>>, <<7976, 7983, 1, -8>>,
    <<7992, 7999, 1, -8>>, <<8008, 8013, 1, -8>>, <<8025, 8031, 2, -8>>,
    <<8040, 8047, 1, -8>>, <<8072, 8079, 1, -8>>, <<8088, 8095, 1, -8>>,
    <<8104, 8111, 1, -8>>, <<8120, 8121, 1, -8>>, <<8122, 8123, 1, -74>>,
    <<8124, 8124, 1, -9>>, <<8136, 8139, 1, -86>>, <<8140, 8140, 1, -9>>,
    <<8152, 8153, 1, -8>>, <<8154, 8155, 1, -100>>, <<8168, 8169, 1, -8>>,
    <<8170, 8171, 1, -112>>, <<8172, 8172, 1, -7>>, <<8184, 8185, 1, -128>>,
    <<8186, 8187, 1, -126>>, <<8188, 8188, 1, -9>>, <<8486, 8486, 1, -7517>>,
    <<8490, 8490, 1, -8383>>, <<8491, 8491, 1, -8262>>, <<8498, 8498, 1, 28>>,
    <<8544, 8559, 1, 16>>, <<8579, 8579, 1, 1>>, <<9398, 9423, 1, 26>>,
    <<11264, 11311, 1, 48>>, <<11360, 11360, 1, 1>>, <<11362, 11362, 1, -10743>>,
    <<11363, 11363, 1, -3814>>, <<11364, 11364, 1, -10727>>, <<11367, 11371, 2, 1>>,
    <<11373, 11373, 1, -10780>>, <<11374, 11374, 1, -10749>>, <<11375, 11375, 1, -10783>>,
    <<11376, 11376, 1, -10782>>, <<11378, 11378, 1, 1>>, <<11381, 11381, 1, 1>>,
    <<11390, 11391, 1, -10815>>, <<11392, 11490, 2, 1>>, <<11499, 11501, 2, 1>>,
    <<11506, 11506, 1, 1>>, <<42560, 42604, 2, 1>>, <<42624, 42650, 2, 1>>,
    <<42786, 42798, 2, 1>>, <<42802, 42862, 2, 1>>, <<42873, 42875, 2, 1>>,
    <<42877, 42877, 1, -35332>>, <<42878, 42886, 2, 1>>, <<42891, 42891, 1, 1>>,
    <<42893, 42893, 1, -42280>>, <<42896, 42898, 2, 1>>, <<42902, 42920, 2, 1>>,
    <<42922, 42922, 1, -42308>>, <<42923, 42923, 1, -42319>>, <<42924, 42924, 1, -42315>>,
    <<42925, 42925, 1, -42305>>, <<42926, 42926, 1, -42308>>, <<42928, 42928, 1, -42258>>,
    <<42929, 42929, 1, -42282>>, <<42930, 42930, 1, -42261>>, <<42931, 42931, 1, 928>>,
    <<42932, 42946, 2, 1>>, <<42948, 42948, 1, -48>>, <<42949, 42949, 1, -42307>>,
    <<42950, 42950, 1, -35384>>, <<42951, 42953, 2, 1>>, <<42960, 42960, 1, 1>>,
    <<42966, 42968, 2, 1>>, <<42997, 42997, 1, 1>>, <<65313, 65338, 1, 32>>,
    <<66560, 66599, 1, 40>>, <<66736, 66771, 1, 40>>, <<66928, 66964, 2, 39>>,
    <<66929, 66937, 2, 39>>, <<66941, 66953, 2, 39>>, <<66957, 66961, 2, 39>>,
    <<66965, 66965, 1, 39>>, <<68736, 68786, 1, 64>>, <<71840, 71871, 1, 32>>,
    <<93760, 93791, 1, 32>>, <<125184, 125217, 1, 34>>}
\* the character whose lower case is several characters
LowerSpecial == {
    <<304, <<105, 775>>>>}
\* the case-ignorable characters
CaseIgnorable == {
    <<39, 39>>, <<46, 46>>, <<58, 58>>, <<94, 94>>, <<96, 96>>,
    <<168, 168>>, <<173, 173>>, <<175, 175>>, <<180, 180>>, <<183, 184>>,
    <<688, 879>>, <<884, 885>>, <<890, 890>>, <<900, 901>>, <<903, 903>>,
    <<1155, 1161>>, <<1369, 1369>>, <<1375, 1375>>, <<1425, 1469>>, <<1471, 1471>>,
    <<1473, 1474>>, <<1476, 1477>>, <<1479, 1479>>, <<1524, 1524>>, <<1536, 1541>>,
    <<1552, 1562>>, <<1564, 1564>>, <<1600, 1600>>, <<1611, 1631>>, <<1648, 1648>>,
    <<1750, 1757>>, <<1759, 1768>>, <<1770, 1773>>, <<1807, 1807>>, <<1809, 1809>>,
    <<1840, 1866>>, <<1958, 1968>>, <<2027, 2037>>, <<2042, 2042>>, <<2045, 2045>>,
    <<2070, 2093>>, <<2137, 2139>>, <<2184, 2184>>, <<2192, 2193>>, <<2200, 2207>>,
    <<2249, 2306>>, <<2362, 2362>>, <<2364, 2364>>, <<2369, 2376>>, <<2381, 2381>>,
    <<2385, 2391>>, <<2402, 2403>>, <<2417, 2417>>, <<2433, 2433>>, <<2492, 2492>>,
    <<2497, 2500>>, <<2509, 2509>>, <<2530, 2531>>, <<2558, 2558>>, <<2561, 2562>>,
    <<2620, 2620>>, <<2625, 2626>>, <<2631, 2632>>, <<2635, 2637>>, <<2641, 2641>>,
    <<2672, 2673>>, <<2677, 2677>>, <<2689, 2690>>, <<2748, 2748>>, <<2753, 2757>>,
    <<2759, 2760>>, <<2765, 2765>>, <<2786, 2787>>, <<2810, 2815>>, <<2817, 2817>>,
    <<2876, 2876>>, <<2879, 2879>>, <<2881, 2884>>, <<2893, 2893>>, <<2901, 2902>>,
    <<2914, 2915>>, <<2946, 2946>>, <<3008, 3008>>, <<3021, 3021>>, <<3072, 3072>>,
    <<3076, 3076>>, <<3132, 3132>>, <<3134, 3136>>, <<3142, 3144>>, <<3146, 3149>>,
    <<3157, 3158>>, <<3170, 3171>>, <<3201, 3201>>, <<3260, 3260>>, <<3263, 3263>>,
    <<3270, 3270>>, <<3276, 3277>>, <<3298, 3299>>, <<3328, 3329>>, <<3387, 3388>>,
    <<3393, 3396>>, <<3405, 3405>>, <<3426, 3427>>, <<3457, 3457>>, <<3530, 3530>>,
    <<3538, 3540>>, <<3542, 3542>>, <<3633, 3633>>, <<3636, 3642>>, <<3654, 3662>>,
    <<3761, 3761>>, <<3764, 3772>>, <<3782, 3782>>, <<3784, 3789>>, <<3864, 3865>>,
    <<3893, 3893>>, <<3895, 3895>>, <<3897, 3897>>, <<3953, 3966>>, <<3968, 3972>>,
    <<3974, 3975>>, <<3981, 3991>>, <<3993, 4028>>, <<4038, 4038>>, <<4141, 4144>>,
    <<4146, 4151>>, <<4153, 4154>>, <<4157, 4158>>, <<4184, 4185>>, <<4190, 4192>>,
    <<4209, 4212>>, <<4226, 4226>>, <<4229, 4230>>, <<4237, 4237>>, <<4253, 4253>>,
    <<4348, 4348>>, <<4957, 4959>>, <<5906, 5908>>, <<5938, 5939>>, <<5970, 5971>>,
    <<6002, 6003>>, <<6068, 6069>>, <<6071, 6077>>, <<6086, 6086>>, <<6089, 6099>>,
    <<6103, 6103>>, <<6109, 6109>>, <<6155, 6159>>, <<6211, 6211>>, <<6277, 6278>>,
    <<6313, 6313>>, <<6432, 6434>>, <<6439, 6440>>, <<6450, 6450>>, <<6457, 6459>>,
    <<6679, 6680>>, <<6683, 6683>>, <<6742, 6742>>, <<6744, 6750>>, <<6752, 6752>>,
    <<6754, 6754>>, <<6757, 6764>>, <<6771, 6780>>, <<6783, 6783>>, <<6823, 6823>>,
    <<6832, 6862>>, <<6912, 6915>>, <<6964, 6964>>, <<6966, 6970>>, <<6972, 6972>>,
    <<6978, 6978>>, <<7019, 7027>>, <<7040, 7041>>, <<7074, 7077>>, <<7080, 7081>>,
    <<7083, 7085>>, <<7142, 7142>>, <<7144, 7145>>, <<7149, 7149>>, <<7151, 7153>>,
    <<7212, 7219>>, <<7222, 7223>>, <<7288, 7293>>, <<7376, 7378>>, <<7380, 7392>>,
    <<7394, 7400>>, <<7405, 7405>>, <<7412, 7412>>, <<7416, 7417>>, <<7468, 7530>>,
    <<7544, 7544>>, <<7579, 7679>>, <<8125, 8125>>, <<8127, 8129>>, <<8141, 8143>>,
    <<8157, 8159>>, <<8173, 8175>>, <<8189, 8190>>, <<8203, 8207>>, <<8216, 8217>>,
    <<8228, 8228>>, <<8231, 8231>>, <<8234, 8238>>, <<8288, 8292>>, <<8294, 8303>>,
    <<8305, 8305>>, <<8319, 8319>>, <<8336, 8348>>, <<8400, 8432>>, <<11388, 11389>>,
    <<11503, 11505>>, <<11631, 11631>>, <<11647, 11647>>, <<11744, 11775>>, <<11823, 11823>>,
    <<12293, 12293>>, <<12330, 12333>>, <<12337, 12341>>, <<12347, 12347>>, <<12441, 12446>>,
    <<12540, 12542>>, <<40981, 40981>>, <<42232, 42237>>, <<42508, 42508>>, <<42607, 42610>>,
    <<42612, 42621>>, <<42623, 42623>>, <<42652, 42655>>, <<42736, 42737>>, <<42752, 42785>>,
    <<42864, 42864>>, <<42888, 42890>>, <<42994, 42996>>, <<43000, 43001>>, <<43010, 43010>>,
    <<43014, 43014>>, <<43019, 43019>>, <<43045, 43046>>, <<43052, 43052>>, <<43204, 43205>>,
    <<43232, 43249>>, <<43263, 43263>>, <<43302, 43309>>, <<43335, 43345>>, <<43392, 43394>>,
    <<43443, 43443>>, <<43446, 43449>>, <<43452, 43453>>, <<43471, 43471>>, <<43493, 43494>>,
    <<43561, 43566>>, <<43569, 43570>>, <<43573, 43574>>, <<43587, 43587>>, <<43596, 43596>>,
    <<43632, 43632>>, <<43644, 43644>>, <<43696, 43696>>, <<43698, 43700>>, <<43703, 43704>>,
    <<43710, 43711>>, <<43713, 43713>>, <<43741, 43741>>, <<43756, 43757>>, <<43763, 43764>>,
    <<43766, 43766>>, <<43867, 43871>>, <<43881, 43883>>, <<44005, 44005>>, <<44008, 44008>>,
    <<44013, 44013>>, <<64286, 64286>>, <<64434, 64450>>, <<65024, 65039>>, <<65043, 65043>>,
    <<65056, 65071>>, <<65106, 65106>>, <<65109, 65109>>, <<65279, 65279>>, <<65287, 65287>>,
    <<65294, 65294>>, <<65306, 65306>>, <<65342, 65342>>, <<65344, 65344>>, <<65392, 65392>>,
    <<65438, 65439>>, <<65507, 65507>>, <<65529, 65531>>, <<66045, 66045>>, <<66272, 66272>>,
    <<66422, 66426>>, <<67456, 67461>>, <<67463, 67504>>, <<67506, 67514>>, <<68097, 68099>>,
    <<68101, 68102>>, <<68108, 68111>>, <<68152, 68154>>, <<68159, 68159>>, <<68325, 68326>>,
    <<68900, 68903>>, <<69291, 69292>>, <<69446, 69456>>, <<69506, 69509>>, <<69633, 69633>>,
    <<69688, 69702>>, <<69744, 69744>>, <<69747, 69748>>, <<69759, 69761>>, <<69811, 69814>>,
    <<69817, 69818>>, <<69821, 69821>>, <<69826, 69826>>, <<69837, 69837>>, <<69888, 69890>>,
    <<69927, 69931>>, <<69933, 69940>>, <<70003, 70003>>, <<70016, 70017>>, <<70070, 70078>>,
    <<70089, 70092>>, <<70095, 70095>>, <<70191, 70193>>, <<70196, 70196>>, <<70198, 70199>>,
    <<70206, 70206>>, <<70367, 70367>>, <<70371, 70378>>, <<70400, 70401>>, <<70459, 70460>>,
    <<70464, 70464>>, <<70502, 70508>>, <<70512, 70516>>, <<70712, 70719>>, <<70722, 70724>>,
    <<70726, 70726>>, <<70750, 70750>>, <<70835, 70840>>, <<70842, 70842>>, <<70847, 70848>>,
    <<70850, 70851>>, <<71090, 71093>>, <<71100, 71101>>, <<71103, 71104>>, <<71132, 71133>>,
    <<71219, 71226>>, <<71229, 71229>>, <<71231, 71232>>, <<71339, 71339>>, <<71341, 71341>>,
    <<71344, 71349>>, <<71351, 71351>>, <<71453, 71455>>, <<71458, 71461>>, <<71463, 71467>>,
    <<71727, 71735>>, <<71737, 71738>>, <<71995, 71996>>, <<71998, 71998>>, <<72003, 72003>>,
    <<72148, 72151>>, <<72154, 72155>>, <<72160, 72160>>, <<72193, 72202>>, <<72243, 72248>>,
    <<72251, 72254>>, <<72263, 72263>>, <<72273, 72278>>, <<72281, 72283>>, <<72330, 72342>>,
    <<72344, 72345>>, <<72752, 72758>>, <<72760, 72765>>, <<72767, 72767>>, <<72850, 72871>>,
    <<72874, 72880>>, <<72882, 72883>>, <<72885, 72886>>, <<73009, 73014>>, <<73018, 73018>>,
    <<73020, 73021>>, <<73023, 73029>>, <<73031, 73031>>, <<73104, 73105>>, <<73109, 73109>>,
    <<73111, 73111>>, <<73459, 73460>>, <<78896, 78904>>, <<92912, 92916>>, <<92976, 92982>>,
    <<92992, 92995>>, <<94031, 94031>>, <<94095, 94111>>, <<94176, 94177>>, <<94179, 94180>>,
    <<110576, 110579>>, <<110581, 110587>>, <<110589, 110590>>, <<113821, 113822>>, <<113824, 113827>>,
    <<118528, 118573>>, <<118576, 118598>>, <<119143, 119145>>, <<119155, 119170>>, <<119173, 119179>>,
    <<119210, 119213>>, <<119362, 119364>>, <<121344, 121398>>, <<121403, 121452>>, <<121461, 121461>>,
    <<121476, 121476>>, <<121499, 121503>>, <<121505, 121519>>, <<122880, 122886>>, <<122888, 122904>>,
    <<122907, 122913>>, <<122915, 122916>>, <<122918, 122922>>, <<123184, 123197>>, <<123566, 123566>>,
    <<123628, 123631>>, <<125136, 125142>>, <<125252, 125259>>, <<127995, 127999>>, <<917505, 917505>>,
    <<917536, 917631>>, <<917760, 917999>>}
\* the cased characters that are not case-ignorable
Cased == {
    <<65, 90>>, <<97, 122>>, <<170, 170>>, <<181, 181>>, <<186, 186>>,
    <<192, 214>>, <<216, 246>>, <<248, 442>>, <<444, 447>>, <<452, 659>>,
    <<661, 687>>, <<880, 883>>, <<886, 887>>, <<891, 893>>, <<895, 895>>,
    <<902, 902>>, <<904, 906>>, <<908, 908>>, <<910, 929>>, <<931, 1013>>,
    <<1015, 1153>>, <<1162, 1327>>, <<1329, 1366>>, <<1376, 1416>>, <<4256, 4293>>,
    <<4295, 4295>>, <<4301, 4301>>, <<4304, 4346>>, <<4349, 4351>>, <<5024, 5109>>,
    <<5112, 5117>>, <<7296, 7304>>, <<7312, 7354>>, <<7357, 7359>>, <<7424, 7467>>,
    <<7531, 7543>>, <<7545, 7578>>, <<7680, 7957>>, <<7960, 7965>>, <<7968, 8005>>,
    <<8008, 8013>>, <<8016, 8023>>, <<8025, 8025>>, <<8027, 8027>>, <<8029, 8029>>,
    <<8031, 8061>>, <<8064, 8116>>, <<8118, 8124>>, <<8126, 8126>>, <<8130, 8132>>,
    <<8134, 8140>>, <<8144, 8147>>, <<8150, 8155>>, <<8160, 8172>>, <<8178, 8180>>,
    <<8182, 8188>>, <<8450, 8450>>, <<8455, 8455>>, <<8458, 8467>>, <<8469, 8469>>,
    <<8473, 8477>>, <<8484, 8484>>, <<8486, 8486>>, <<8488, 8488>>, <<8490, 8493>>,
    <<8495, 8500>>, <<8505, 8505>>, <<8508, 8511>>, <<8517, 8521>>, <<8526, 8526>>,
    <<8544, 8575>>, <<8579, 8580>>, <<9398, 9449>>, <<11264, 11387>>, <<11390, 11492>>,
    <<11499, 11502>>, <<11506, 11507>>, <<11520, 11557>>, <<11559, 11559>>, <<11565, 11565>>,
    <<42560, 42605>>, <<42624, 42651>>, <<42786, 42863>>, <<42865, 42887>>, <<42891, 42894>>,
    <<42896, 42954>>, <<42960, 42961>>, <<42963, 42963>>, <<42965, 42969>>, <<42997, 42998>>,
    <<43002, 43002>>, <<43824, 43866>>, <<43872, 43880>>, <<43888, 43967>>, <<64256, 64262>>,
    <<64275, 64279>>, <<65313, 65338>>, <<65345, 65370>>, <<66560, 66639>>, <<66736, 66771>>,
    <<66776, 66811>>, <<66928, 66938>>, <<66940, 66954>>, <<66956, 66962>>, <<66964, 66965>>,
    <<66967, 66977>>, <<66979, 66993>>, <<66995, 67001>>, <<67003, 67004>>, <<68736, 68786>>,
    <<68800, 68850>>, <<71840, 71903>>, <<93760, 93823>>, <<119808, 119892>>, <<119894, 119964>>,
    <<119966, 119967>>, <<119970, 119970>>, <<119973, 119974>>, <<119977, 119980>>, <<119982, 119993>>,
    <<119995, 119995>>, <<119997, 120003>>, <<120005, 120069>>, <<120071, 120074>>, <<120077, 120084>>,
    <<120086, 120092>>, <<120094, 120121>>, <<120123, 120126>>, <<120128, 120132>>, <<120134, 120134>>,
    <<120138, 120144>>, <<120146, 120485>>, <<120488, 120512>>, <<120514, 120538>>, <<120540, 120570>>,
    <<120572, 120596>>, <<120598, 120628>>, <<120630, 120654>>, <<120656, 120686>>, <<120688, 120712>>,
    <<120714, 120744>>, <<120746, 120770>>, <<120772, 120779>>, <<122624, 122633>>, <<122635, 122654>>,
    <<125184, 125251>>, <<127280, 127305>>, <<127312, 127337>>, <<127344, 127369>>}
\* ch.upper(), a text of one to three characters
UpperChar(c) ==
    LET special == {p \in UpperSpecial : p[1] = c}
        rules   == RulesFor(c, UpperRules)
    IN  IF special # {} THEN (CHOOSE p \in special : TRUE)[2]
        ELSE IF rules # {} THEN <<c + (CHOOSE r \in rules : TRUE)[4]>>
        ELSE <<c>>

\* ch.lower() of a character on its own
LowerChar(c) ==
    LET special == {p \in LowerSpecial : p[1] = c}
        rules   == RulesFor(c, LowerRules)
    IN  IF special # {} THEN (CHOOSE p \in special : TRUE)[2]
        ELSE IF rules # {} THEN <<c + (CHOOSE r \in rules : TRUE)[4]>>
        ELSE <<c>>

\* the capital sigma at s[i] is final: the nearest character before it that
\* is not case-ignorable is cased, and the nearest one after it is not
FinalSigma(s, i) ==
    LET before == {j \in 1..(i - 1) : ~InRanges(s[j], CaseIgnorable)}
        after  == {j \in (i + 1)..Len(s) : ~InRanges(s[j], CaseIgnorable)}
    IN  /\ before # {}
        /\ InRanges(s[CHOOSE j \in before : \A k \in before : k <= j], Cased)
        /\ \/ after = {}
           \/ ~InRanges(s[CHOOSE j \in after : \A k \in after : j <= k], Cased)

\* the lower case of the character at s[i]: the capital sigma U+03A3 becomes
\* the final sigma U+03C2 or the small sigma U+03C3
LowerAt(s, i) ==
    IF s[i] = 931 THEN <<IF FinalSigma(s, i) THEN 962 ELSE 963>>
    ELSE LowerChar(s[i])

\* str.upper()
RECURSIVE Upper(_)
Upper(s) == IF s = <<>> THEN <<>> ELSE UpperChar(Head(s)) \o Upper(Tail(s))

\* str.lower()
RECURSIVE LowerFrom(_, _)
LowerFrom(s, i) ==
    IF i > Len(s) THEN <<>> ELSE LowerAt(s, i) \o LowerFrom(s, i + 1)

Lower(s) == LowerFrom(s, 1)

\* the characters str.strip() removes (str.isspace())
Whitespace ==
    UNION {a[1]..a[2] : a \in {
        <<9, 13>>, <<28, 32>>, <<133, 133>>, <<160, 160>>, <<5760, 5760>>,
        <<8192, 8202>>, <<8232, 8233>>, <<8239, 8239>>, <<8287, 8287>>, <<12288, 12288>>}}
\* str.strip()
RECURSIVE LStrip(_)
LStrip(s) == IF s # <<>> /\ Head(s) \in Whitespace THEN LStrip(Tail(s)) ELSE s

RECURSIVE RStrip(_)
RStrip(s) ==
    IF s # <<>> /\ s[Len(s)] \in Whitespace
    THEN RStrip(SubSeq(s, 1, Len(s) - 1)) ELSE s

Strip(s) == RStrip(LStrip(s))

\* str.startswith(p)
StartsWith(s, p) == Len(s) >= Len(p) /\ SubSeq(s, 1, Len(p)) = p

\* p in s
Contains(s, p) ==
    \E i \in 0..(Len(s) - Len(p)) : SubSeq(s, i + 1, i + Len(p)) = p

\* ['TRUE', 'T', 'Y', 'YES', '1']
TruthyWords ==
    {Text(<<"T", "R", "U", "E">>), Text(<<"T">>), Text(<<"Y">>),
     Text(<<"Y", "E", "S">>), Text(<<"1">>)}

\* oos_indicator.strip().upper() in ['TRUE', 'T', 'Y', 'YES', '1']
IsTruthyText(s) == Upper(Strip(s)) \in TruthyWords

\* str(oos_indicator).upper().strip() in ["TRUE", "T", "Y", "YES", "1"]
IsTruthyIndicator(s) == Strip(Upper(s)) \in TruthyWords

(***************************************************************************)
(* Dates.  A raw date is a text; the parsers below do, character by        *)
(* character, what the interpreter of the source does (Python 3.11):       *)
(* str.isdigit, int, datetime.strptime with the three formats of the       *)
(* source, and datetime.fromisoformat, which works on the UTF-8 bytes of   *)
(* the text.                                                               *)
(***************************************************************************)
\* date_obj = None
NoDateObj == [ok |-> FALSE, year |-> 0, month |-> 0]

IsLeap(y) == (y % 4 = 0 /\ y % 100 # 0) \/ y % 400 = 0

DaysIn(y, m) ==
    IF m \in {4, 6, 9, 11} THEN 30
    ELSE IF m = 2 THEN (IF IsLeap(y) THEN 29 ELSE 28)
    ELSE 31

\* datetime(y, m, d) exists
ValidDate(y, m, d) == y \in 1..9999 /\ m \in 1..12 /\ d \in 1..DaysIn(y, m)

DateObj(y, m, d) ==
    IF ValidDate(y, m, d) THEN [ok |-> TRUE, year |-> y, month |-> m] ELSE NoDateObj

\* the code points of the characters whose decimal value is 0; each starts a
\* run of ten characters of the values 0..9 (Unicode category Nd)
DecimalZeros ==
    <<48, 1632, 1776, 1984, 2406, 2534, 2662, 2790,
      2918, 3046, 3174, 3302, 3430, 3558, 3664, 3792,
      3872, 4160, 4240, 6112, 6160, 6470, 6608, 6784,
      6800, 6992, 7088, 7232, 7248, 42528, 43216, 43264,
      43472, 43504, 43600, 44016, 65296, 66720, 68912, 69734,
      69872, 69942, 70096, 70384, 70736, 70864, 71248, 71360,
      71472, 71904, 72016, 72784, 73040, 73120, 92768, 92864,
      93008, 120782, 120792, 120802, 120812, 120822, 123200, 123632,
      125264, 130032>>

\* the characters str.isdigit() accepts besides the decimal ones (superscripts,
\* circled digits, ...), as intervals of code points
DigitOnlyRanges ==
    {<<178, 179>>, <<185, 185>>, <<4969, 4977>>, <<6618, 6618>>,
      <<8304, 8304>>, <<8308, 8313>>, <<8320, 8329>>, <<9312, 9320>>,
      <<9332, 9340>>, <<9352, 9360>>, <<9450, 9450>>, <<9461, 9469>>,
      <<9471, 9471>>, <<10102, 10110>>, <<10112, 10120>>, <<10122, 10130>>,
      <<68160, 68163>>, <<69216, 69224>>, <<69714, 69722>>, <<127232, 127242>>}

DecimalRanges == {<<DecimalZeros[i], DecimalZeros[i] + 9>> : i \in DOMAIN DecimalZeros}

\* the character is a decimal digit: "\d" of a regular expression, a digit
\* for int()
IsDecimal(c) == InRanges(c, DecimalRanges)

\* the value 0..9 of a decimal digit
DecimalValue(c) ==
    LET a == CHOOSE a \in DecimalRanges : a[1] <= c /\ c <= a[2]
    IN  c - a[1]

\* str.isdigit()
IsDigit(s) ==
    /\ s # <<>>
    /\ \A i \in DOMAIN s : IsDecimal(s[i]) \/ InRanges(s[i], DigitOnlyRanges)

\* the number a run of decimal digits and single underscores spells; ok is
\* FALSE where int() raises ValueError
RECURSIVE DigitRun(_, _, _)
DigitRun(s, i, v) ==
    IF i > Len(s) THEN [ok |-> TRUE, v |-> v]
    ELSE IF IsDecimal(s[i]) THEN DigitRun(s, i + 1, v * 10 + DecimalValue(s[i]))
    ELSE IF s[i] = 95 /\ i > 1 /\ i < Len(s) /\ IsDecimal(s[i - 1]) /\ IsDecimal(s[i + 1])
    THEN DigitRun(s, i + 1, v)
    ELSE [ok |-> FALSE, v |-> 0]

\* the blanks int() drops at both ends of its text: the white space but the
\* four ASCII separators 28..31
IntBlank == Whitespace \ (28..31)

\* the text without the leading and trailing blanks of int()
RECURSIVE IntStrip(_)
IntStrip(s) ==
    IF s = <<>> THEN s
    ELSE IF Head(s) \in IntBlank THEN IntStrip(Tail(s))
    ELSE IF s[Len(s)] \in IntBlank THEN IntStrip(SubSeq(s, 1, Len(s) - 1))
    ELSE s

\* int(s) in base 10: blanks around, an optional sign, decimal digits of any
\* script
ToInt(s) ==
    LET t      == IntStrip(s)
        signed == t # <<>> /\ Head(t) \in {43, 45}
        body   == IF signed THEN Tail(t) ELSE t
        r      == IF body = <<>> THEN [ok |-> FALSE, v |-> 0] ELSE DigitRun(body, 1, 0)
    IN  IF r.ok /\ signed /\ Head(t) = 45 THEN [ok |-> TRUE, v |-> -r.v] ELSE r

\* s.split()[0] if s else '': the text up to its first blank, after the
\* leading blanks
RECURSIVE UpToBlank(_)
UpToBlank(s) ==
    IF s = <<>> \/ Head(s) \in Whitespace THEN <<>>
    ELSE <<Head(s)>> \o UpToBlank(Tail(s))

FirstWord(s) == UpToBlank(LStrip(s))

\* s.split("T")[0]
RECURSIVE BeforeT(_)
BeforeT(s) ==
    IF s = <<>> \/ Head(s) = 84 THEN <<>>
    ELSE <<Head(s)>> \o BeforeT(Tail(s))

(***************************************************************************)
(* datetime.strptime.  A format is compiled to a regular expression, a     *)
(* sequence of groups; a group is a sequence of alternatives, tried in     *)
(* order; an alternative is a sequence of character classes, each a set of *)
(* intervals of code points.  The expression is matched ignoring case.     *)
(***************************************************************************)
Chr(ch) == {<<Ord(ch), Ord(ch)>>}

Between(a, b) == {<<Ord(a), Ord(b)>>}

\* the characters that match a letter when case is ignored: the long s
\* (U+017F) matches "s"
Letter(ch) ==
    Chr(ch) \cup {<<Ord(ch) - 32, Ord(ch) - 32>>}
            \cup (IF ch = "s" THEN {<<383, 383>>} ELSE {})

\* %Y
RegexY == <<<<DecimalRanges, DecimalRanges, DecimalRanges, DecimalRanges>>>>

\* %y
Regexy == <<<<DecimalRanges, DecimalRanges>>>>

\* %m: 1[0-2]|0[1-9]|[1-9]
Regexm ==
    <<<<Chr("1"), Between("0", "2")>>,
      <<Chr("0"), Between("1", "9")>>,
      <<Between("1", "9")>>>>

\* %d: 3[0-1]|[1-2]\d|0[1-9]|[1-9]| [1-9]
Regexd ==
    <<<<Chr("3"), Between("0", "1")>>,
      <<Between("1", "2"), DecimalRanges>>,
      <<Chr("0"), Between("1", "9")>>,
      <<Between("1", "9")>>,
      <<Chr(" "), Between("1", "9")>>>>

\* the abbreviated month names of the C locale, lower case
MonthNames ==
    <<<<"j", "a", "n">>, <<"f", "e", "b">>, <<"m", "a", "r">>, <<"a", "p", "r">>,
      <<"m", "a", "y">>, <<"j", "u", "n">>, <<"j", "u", "l">>, <<"a", "u", "g">>,
      <<"s", "e", "p">>, <<"o", "c", "t">>, <<"n", "o", "v">>, <<"d", "e", "c">>>>

\* %b
Regexb ==
    [i \in 1..12 |-> [j \in 1..3 |-> Letter(MonthNames[i][j])]]

\* a character of the format that is not a directive
RegexLiteral(ch) == <<<<Chr(ch)>>>>

NoMatch == [ok |-> FALSE, ends |-> <<>>]

\* the alternative matches s from position pos (1-based) on
AltMatches(alt, s, pos) ==
    /\ pos + Len(alt) - 1 <= Len(s)
    /\ \A i \in 1..Len(alt) : InRanges(s[pos + i - 1], alt[i])

\* format_regex.match(data_string): the first match in the order a
\* backtracking matcher tries the alternatives; ends[i] is the position after
\* group i
RECURSIVE FirstMatch(_, _, _)
RECURSIVE TryAlternatives(_, _, _, _)
TryAlternatives(alts, rest, s, pos) ==
    IF alts = <<>> THEN NoMatch
    ELSE LET alt  == Head(alts)
             next == pos + Len(alt)
             r    == IF AltMatches(alt, s, pos) THEN FirstMatch(rest, s, next)
                     ELSE NoMatch
         IN  IF r.ok THEN [ok |-> TRUE, ends |-> <<next>> \o r.ends]
             ELSE TryAlternatives(Tail(alts), rest, s, pos)

FirstMatch(regex, s, pos) ==
    IF regex = <<>> THEN [ok |-> TRUE, ends |-> <<>>]
    ELSE TryAlternatives(Head(regex), Tail(regex), s, pos)

\* the texts of the groups of a match of the whole of s; ok is FALSE when s
\* does not match or "unconverted data remains"
Groups(regex, s) ==
    LET r == FirstMatch(regex, s, 1)
    IN  IF r.ok /\ r.ends[Len(regex)] = Len(s) + 1
        THEN [ok |-> TRUE,
              g  |-> [i \in 1..Len(regex) |->
                         SubSeq(s, IF i = 1 THEN 1 ELSE r.ends[i - 1], r.ends[i] - 1)]]
        ELSE [ok |-> FALSE, g |-> <<>>]

\* locale_time.a_month.index(found_dict['b'].lower()); 0 where it raises
MonthIndex(b) ==
    LET low == Lower(b)
        hit == {i \in 1..12 : low = Text(MonthNames[i])}
    IN  IF hit = {} THEN 0 ELSE CHOOSE i \in hit : TRUE

\* strptime's %y: 69..99 -> 1969..1999, 0..68 -> 2000..2068
TwoDigitYear(yy) == IF yy >= 69 THEN 1900 + yy ELSE 2000 + yy

\* the regular expressions of the formats "%Y%m%d", "%d-%b-%y", "%m/%d/%Y"
\* and "%Y-%m", a group per directive or literal
FormatYmd8 == <<RegexY, Regexm, Regexd>>

FormatDmy == <<Regexd, RegexLiteral("-"), Regexb, RegexLiteral("-"), Regexy>>

FormatMdy == <<Regexm, RegexLiteral("/"), Regexd, RegexLiteral("/"), RegexY>>

FormatYm == <<RegexY, RegexLiteral("-"), Regexm>>

\* datetime.strptime(s, "%Y%m%d"), ValueError as NoDateObj
StrptimeYmd8(s) ==
    LET m == Groups(FormatYmd8, s)
    IN  IF ~m.ok THEN NoDateObj
        ELSE DateObj(ToInt(m.g[1]).v, ToInt(m.g[2]).v, ToInt(m.g[3]).v)

\* datetime.strptime(s, "%d-%b-%y")
StrptimeDmy(s) ==
    LET m == Groups(FormatDmy, s)
    IN  IF ~m.ok THEN NoDateObj
        ELSE DateObj(TwoDigitYear(ToInt(m.g[5]).v), MonthIndex(m.g[3]), ToInt(m.g[1]).v)

\* datetime.strptime(s, "%m/%d/%Y")
StrptimeMdy(s) ==
    LET m == Groups(FormatMdy, s)
    IN  IF ~m.ok THEN NoDateObj
        ELSE DateObj(ToInt(m.g[5]).v, ToInt(m.g[1]).v, ToInt(m.g[3]).v)

\* datetime.strptime(s, "%Y-%m")
StrptimeYm(s) ==
    LET m == Groups(FormatYm, s)
    IN  IF ~m.ok THEN NoDateObj
        ELSE DateObj(ToInt(m.g[1]).v, ToInt(m.g[3]).v, 1)

(***************************************************************************)
(* datetime.fromisoformat (the C implementation of Python 3.11): the date  *)
(* as YYYY-MM-DD, YYYYMMDD, YYYY-Www[-D] or YYYYWww[D], then, after one    *)
(* separator character of any kind, an optional time hh[:mm[:ss[.ffffff]]] *)
(* with an optional UTC offset.  It reads the UTF-8 bytes of the text,     *)
(* which end with a zero byte.                                             *)
(***************************************************************************)
\* the UTF-8 encoding of one code point
Utf8Char(c) ==
    IF c < 128 THEN <<c>>
    ELSE IF c < 2048 THEN <<192 + (c \div 64), 128 + (c % 64)>>
    ELSE IF c < 65536
    THEN <<224 + (c \div 4096), 128 + ((c \div 64) % 64), 128 + (c % 64)>>
    ELSE <<240 + (c \div 262144), 128 + ((c \div 4096) % 64),
           128 + ((c \div 64) % 64), 128 + (c % 64)>>

RECURSIVE Utf8(_)
Utf8(s) == IF s = <<>> THEN <<>> ELSE Utf8Char(Head(s)) \o Utf8(Tail(s))

\* dtstr[i] of the C string, i counted from 0; the terminator is 0
ByteAt(b, i) == IF i >= 0 /\ i < Len(b) THEN b[i + 1] ELSE 0

IsAsciiDigit(c) == 48 <= c /\ c <= 57

RECURSIVE DigitsValue(_, _, _)
DigitsValue(b, p, n) ==
    IF n = 0 THEN 0
    ELSE DigitsValue(b, p, n - 1) * 10 + (ByteAt(b, p + n - 1) - 48)

\* parse_digits: n ASCII digits from offset p on
ParseDigits(b, p, n) ==
    IF \A i \in 0..(n - 1) : IsAsciiDigit(ByteAt(b, p + i))
    THEN [ok |-> TRUE, v |-> DigitsValue(b, p, n), p |-> p + n]
    ELSE [ok |-> FALSE, v |-> 0, p |-> p]

IsSurrogate(c) == 55296 <= c /\ c <= 57343

\* _sanitize_isoformat_str: a surrogate at the first of the positions 7, 8,
\* 10 that holds one is replaced with "T"
SanitizeIsoformat(s) ==
    LET at == {i \in {8, 9, 11} : i <= Len(s) /\ IsSurrogate(s[i])}
    IN  IF at = {} THEN s
        ELSE [s EXCEPT ![CHOOSE i \in at : \A j \in at : i <= j] = 84]

\* the index of the first byte from idx on that is not a digit, at most n
RECURSIVE DigitsEnd(_, _, _)
DigitsEnd(b, idx, n) ==
    IF idx < n /\ IsAsciiDigit(ByteAt(b, idx)) THEN DigitsEnd(b, idx + 1, n) ELSE idx

\* _find_isoformat_datetime_separator
FindIsoformatSeparator(b) ==
    LET n == Len(b)
    IN  IF n = 7 THEN 7
        ELSE IF ByteAt(b, 4) = 45
        THEN IF ByteAt(b, 5) = 87
             THEN IF n < 8 THEN -1
                  ELSE IF n > 8 /\ ByteAt(b, 8) = 45
                  THEN IF n = 9 THEN -1
                       ELSE IF n > 10 /\ IsAsciiDigit(ByteAt(b, 10)) THEN 8
                       ELSE 10
                  ELSE 8
             ELSE 10
        ELSE IF ByteAt(b, 4) = 87
        THEN LET idx == DigitsEnd(b, 7, n)
             IN  IF idx < 9 THEN idx ELSE IF idx % 2 = 0 THEN 7 ELSE 8
        ELSE 8

\* days_before_year, days_before_month, ymd_to_ord
DaysBeforeYear(year) ==
    LET y == year - 1
    IN  y * 365 + (y \div 4) - (y \div 100) + (y \div 400)

RECURSIVE DaysBeforeMonth(_, _)
DaysBeforeMonth(y, m) ==
    IF m <= 1 THEN 0 ELSE DaysBeforeMonth(y, m - 1) + DaysIn(y, m - 1)

YmdToOrd(y, m, d) == DaysBeforeYear(y) + DaysBeforeMonth(y, m) + d

\* weekday: Monday is 0
Weekday(y, m, d) == (YmdToOrd(y, m, d) + 6) % 7

\* iso_week1_monday: the ordinal of the Monday that starts ISO week 1
IsoWeek1Monday(year) ==
    LET first_day     == YmdToOrd(year, 1, 1)
        first_weekday == (first_day + 6) % 7
        week1_monday  == first_day - first_weekday
    IN  IF first_weekday > 3 THEN week1_monday + 7 ELSE week1_monday

NoYmd == [ok |-> FALSE, y |-> 0, m |-> 0, d |-> 0]

\* ord_to_ymd for an ordinal of the years near year; an ordinal outside the
\* years 1..9999 gives no date
OrdToYmd(ordinal, year) ==
    LET ys == {y \in (year - 1)..(year + 1) :
                  y >= 1 /\ DaysBeforeYear(y) < ordinal
                         /\ ordinal <= DaysBeforeYear(y + 1)}
    IN  IF ys = {} THEN NoYmd
        ELSE LET y == CHOOSE y \in ys : TRUE
                 n == ordinal - DaysBeforeYear(y)
                 m == CHOOSE m \in 1..12 :
                         /\ DaysBeforeMonth(y, m) < n
                         /\ n <= DaysBeforeMonth(y, m) + DaysIn(y, m)
             IN  [ok |-> TRUE, y |-> y, m |-> m, d |-> n - DaysBeforeMonth(y, m)]

\* iso_to_ymd
IsoToYmd(iso_year, iso_week, iso_day) ==
    LET first_weekday == Weekday(iso_year, 1, 1)
        long_year     == first_weekday = 3 \/ (first_weekday = 2 /\ IsLeap(iso_year))
    IN  IF (iso_week <= 0 \/ iso_week >= 53) /\ ~(iso_week = 53 /\ long_year)
        THEN NoYmd
        ELSE IF iso_day <= 0 \/ iso_day >= 8 THEN NoYmd
        ELSE OrdToYmd(IsoWeek1Monday(iso_year) + (iso_week - 1) * 7 + iso_day - 1,
                      iso_year)

\* the rest of parse_isoformat_date after "W": the week and the day
ParseIsoWeek(b, n, year, p, uses_separator) ==
    LET week == ParseDigits(b, p, 2)
    IN  IF ~week.ok THEN NoYmd
        ELSE IF week.p < n
        THEN IF uses_separator /\ ByteAt(b, week.p) # 45 THEN NoYmd
             ELSE LET day == ParseDigits(b, IF uses_separator THEN week.p + 1
                                            ELSE week.p, 1)
                  IN  IF ~day.ok THEN NoYmd ELSE IsoToYmd(year, week.v, day.v)
        ELSE IsoToYmd(year, week.v, 1)

\* parse_isoformat_date(dtstr, len = n): year, month and day as written (a
\* week date converted), not yet checked to be a date
ParseIsoformatDate(b, n) ==
    LET year == ParseDigits(b, 0, 4)
    IN  IF ~year.ok THEN NoYmd
        ELSE LET uses_separator == ByteAt(b, year.p) = 45
                 p == IF uses_separator THEN year.p + 1 ELSE year.p
             IN  IF ByteAt(b, p) = 87
                 THEN ParseIsoWeek(b, n, year.v, p + 1, uses_separator)
                 ELSE LET month == ParseDigits(b, p, 2)
                      IN  IF ~month.ok THEN NoYmd
                          ELSE IF uses_separator /\ ByteAt(b, month.p) # 45 THEN NoYmd
                          ELSE LET day == ParseDigits(b, IF uses_separator
                                                         THEN month.p + 1
                                                         ELSE month.p, 2)
                               IN  IF ~day.ok THEN NoYmd
                                   ELSE [ok |-> TRUE, y |-> year.v,
                                         m |-> month.v, d |-> day.v]

\* the fraction of parse_hh_mm_ss_ff, from offset p on: the return code
ParseFraction(b, p, end) ==
    LET len_remains == end - p
        to_parse    == IF len_remains >= 6 THEN 6 ELSE len_remains
        frac        == ParseDigits(b, p, to_parse)
    IN  IF ~frac.ok THEN -3
        ELSE IF ByteAt(b, DigitsEnd(b, frac.p, Len(b))) # 0 THEN 1 ELSE 0

\* parse_hh_mm_ss_ff(tstr = offset p, tstr_end = end), at field i of hour,
\* minute, second: [rv, vals], rv the return code (0: success, 1: success
\* with text left, negative: failure)
RECURSIVE ParseHhMmSsFf(_, _, _, _, _, _)
ParseHhMmSsFf(b, p, end, i, has_separator, vals) ==
    IF i = 3 THEN [rv |-> ParseFraction(b, p, end), vals |-> vals]
    ELSE LET field == ParseDigits(b, p, 2)
         IN  IF ~field.ok THEN [rv |-> -3, vals |-> vals]
             ELSE LET v   == [vals EXCEPT ![i + 1] = field.v]
                      c   == ByteAt(b, field.p)
                      q   == field.p + 1
                      sep == IF i = 0 THEN c = 58 ELSE has_separator
                  IN  IF q >= end THEN [rv |-> IF c # 0 THEN 1 ELSE 0, vals |-> v]
                      ELSE IF sep /\ c = 58
                      THEN ParseHhMmSsFf(b, q, end, i + 1, sep, v)
                      ELSE IF c \in {46, 44}
                      THEN [rv |-> ParseFraction(b, q, end), vals |-> v]
                      ELSE IF ~sep
                      THEN ParseHhMmSsFf(b, q - 1, end, i + 1, sep, v)
                      ELSE [rv |-> -4, vals |-> v]

\* the offset of the first "Z", "+" or "-" from p on, or the end
RECURSIVE TzinfoPos(_, _)
TzinfoPos(b, p) ==
    IF ByteAt(b, p) \in {90, 43, 45} THEN p
    ELSE IF p + 1 < Len(b) THEN TzinfoPos(b, p + 1)
    ELSE p + 1

\* parse_isoformat_time from offset p on, and the checks the constructors
\* of the time and of the time zone make: the text is a time
ValidIsoformatTime(b, p) ==
    LET p_end      == Len(b)
        tzinfo_pos == TzinfoPos(b, p)
        t          == ParseHhMmSsFf(b, p, tzinfo_pos, 0, TRUE, <<0, 0, 0>>)
        in_range   == t.vals[1] < 24 /\ t.vals[2] < 60 /\ t.vals[3] < 60
    IN  IF t.rv < 0 THEN FALSE
        ELSE IF tzinfo_pos = p_end THEN t.rv = 0 /\ in_range
        ELSE IF ByteAt(b, tzinfo_pos) = 90
        THEN ByteAt(b, tzinfo_pos + 1) = 0 /\ in_range
        ELSE LET tz == ParseHhMmSsFf(b, tzinfo_pos + 1, p_end, 0, TRUE, <<0, 0, 0>>)
             IN  /\ tz.rv = 0
                 /\ in_range
                 /\ tz.vals[1] * 3600 + tz.vals[2] * 60 + tz.vals[3] < 86400

\* the bytes the separator character at offset p takes
SeparatorWidth(b, p) ==
    LET c == ByteAt(b, p)
    IN  IF c < 128 THEN 1
        ELSE IF c \div 16 = 14 THEN 3
        ELSE IF c \div 16 = 15 THEN 4
        ELSE 2

\* datetime.fromisoformat(s), ValueError as NoDateObj
FromIsoFormat(s) ==
    IF Len(s) < 7 THEN NoDateObj
    ELSE LET clean == SanitizeIsoformat(s)
         IN  IF \E i \in DOMAIN clean : IsSurrogate(clean[i]) THEN NoDateObj
             ELSE LET b   == Utf8(clean)
                      sep == FindIsoformatSeparator(b)
                      d   == ParseIsoformatDate(b, IF sep < 0 THEN Len(b) + 1 ELSE sep)
                  IN  IF ~d.ok THEN NoDateObj
                      ELSE IF Len(b) > sep
                              /\ ~ValidIsoformatTime(b, sep + SeparatorWidth(b, sep))
                      THEN NoDateObj
                      ELSE DateObj(d.y, d.m, d.d)

\* one step of a chain of formats: the date already parsed, or the next
\* format's
OrElse(date_obj, next) == IF date_obj.ok THEN date_obj ELSE next

\* process_inspections' chain of formats on date_str, already stripped:
\* first that parses wins
CsvParseDate(date_str) ==
    OrElse(OrElse(OrElse(IF Len(date_str) = 8 /\ IsDigit(date_str)
                         THEN StrptimeYmd8(date_str)
                         ELSE NoDateObj,
                         FromIsoFormat(BeforeT(date_str))),
                  StrptimeDmy(Upper(date_str))),
           StrptimeMdy(date_str))

\* process_violations' chain on str(date_str): DD-MMM-YY of the stripped
\* upper-case text, then ISO of the text as it is
ApiParseDate(date_str) ==
    OrElse(StrptimeDmy(Upper(Strip(date_str))), FromIsoFormat(BeforeT(date_str)))

\* date_obj.strftime("%Y-%m") as the number year * 100 + month
YearMonth(date_obj) == date_obj.year * 100 + date_obj.month

(***************************************************************************)
(* Month keys and labels                                                   *)
(***************************************************************************)
\* str(n) of a natural number
RECURSIVE Decimal(_)
Decimal(n) ==
    IF n < 10 THEN <<48 + n>> ELSE Decimal(n \div 10) \o <<48 + (n % 10)>>

\* the text of the key year * 100 + month, as strftime("%Y-%m") of the C
\* library of the build writes it: the year without padding, the month with
\* two digits ("2025-01", "999-01")
MonthKey(ym) ==
    Decimal(ym \div 100) \o <<45, 48 + ((ym % 100) \div 10), 48 + (ym % 10)>>

\* a < b of two str: by code points, a proper prefix first
RECURSIVE TextLess(_, _)
TextLess(a, b) ==
    IF b = <<>> THEN FALSE
    ELSE IF a = <<>> THEN TRUE
    ELSE IF Head(a) # Head(b) THEN Head(a) < Head(b)
    ELSE TextLess(Tail(a), Tail(b))

\* datetime.strptime(month, "%Y-%m") raises ValueError: the key of a year
\* before 1000 has fewer than the four digits %Y asks for
LabelRaises(ym) == ~StrptimeYm(MonthKey(ym)).ok

\* date_obj.strftime("%b %y"): the month and the last two digits of the year
Strftime(date_obj) == [b |-> date_obj.month, y |-> date_obj.year % 100]

\* datetime.strptime(month, "%Y-%m").strftime("%b %y")
Label(ym) == Strftime(StrptimeYm(MonthKey(ym)))

(***************************************************************************)
(* The aggregator                                                          *)
(***************************************************************************)
\* Accumulate with the "all" increments in an else branch: an out-of-service
\* record is counted as oos only
AccumulateElse(t, year_month, state, is_oos) ==
    IF is_oos
    THEN [monthly_data  |-> IncrOos(t.monthly_data, year_month),
          total_oos     |-> t.total_oos + 1,
          state_data    |-> IncrOos(t.state_data, state),
          state_monthly |-> IncrOos2(t.state_monthly, state, year_month),
          total_all     |-> t.total_all]
    ELSE [monthly_data  |-> IncrAll(t.monthly_data, year_month),
          total_all     |-> t.total_all + 1,
          state_data    |-> IncrAll(t.state_data, state),
          state_monthly |-> IncrAll2(t.state_monthly, state, year_month),
          total_oos     |-> t.total_oos]

\* Accumulate without the state x month "oos" increment
AccumulateNoCellOos(t, year_month, state, is_oos) ==
    LET a == [monthly_data  |-> IncrAll(t.monthly_data, year_month),
              total_all     |-> t.total_all + 1,
              state_data    |-> IncrAll(t.state_data, state),
              state_monthly |-> IncrAll2(t.state_monthly, state, year_month),
              total_oos     |-> t.total_oos]
    IN  IF is_oos
        THEN [a EXCEPT !.monthly_data = IncrOos(@, year_month),
                       !.total_oos = @ + 1,
                       !.state_data = IncrOos(@, state)]
        ELSE a

\* "Increment counters": the same eight statements in both pipelines
Accumulate(t, year_month, state, is_oos) ==
    LET a == [monthly_data  |-> IncrAll(t.monthly_data, year_month),
              total_all     |-> t.total_all + 1,
              state_data    |-> IncrAll(t.state_data, state),
              state_monthly |-> IncrAll2(t.state_monthly, state, year_month),
              total_oos     |-> t.total_oos]
    IN  IF is_oos
        THEN [monthly_data  |-> IncrOos(a.monthly_data, year_month),
              total_oos     |-> a.total_oos + 1,
              state_data    |-> IncrOos(a.state_data, state),
              state_monthly |-> IncrOos2(a.state_monthly, state, year_month),
              total_all     |-> a.total_all]
        ELSE a

(***************************************************************************)
(* CSV pipeline: load_elp_violations, process_inspections                  *)
(***************************************************************************)
Sec11b2Canonical == Text(<<"1", "1", "(", "B", ")", "(", "2", ")">>)
Sec11B2 == Text(<<"1", "1", "B", "2">>)

\* is_elp of one violations.csv row
IsElp(row) ==
    LET part_no      == Strip(row.part_no)
        part_section == Upper(Strip(row.part_section))
    IN  part_no = Text(<<"3", "9", "1">>)
        /\ (part_section = Sec11b2Canonical \/ StartsWith(part_section, Sec11B2))

\* the limit of csv.reader on the characters of one field
field_size_limit == 131072

\* the csv reader raises csv.Error instead of giving the row: one of its
\* fields is larger than the field limit
Refused(row) == \E field \in DOMAIN row : Len(row[field]) > field_size_limit

\* one turn of load_elp_violations' loop, the reader's next row and the
\* body: the dict afterwards. raised: an exception that the handler around
\* the whole loop turns into sys.exit(1), which is the reader's csv.Error
\* for a row it refuses, or the ValueError of int(date_part[:4]) (eight
\* characters that isdigit() accepts and int() does not, as a superscript
\* two)
LoadRow(elp, row) ==
    LET change_date == Strip(row.change_date)
        date_part   == FirstWord(change_date)
        year        == ToInt(SubSeq(date_part, 1, 4))
        kept        == [elp |-> elp, raised |-> FALSE]
    IN  IF Refused(row) THEN [elp |-> elp, raised |-> TRUE]
        ELSE IF ~IsElp(row) THEN kept
        ELSE IF ~(Len(date_part) = 8 /\ IsDigit(date_part)) THEN kept
        ELSE IF ~year.ok THEN [elp |-> elp, raised |-> TRUE]
        ELSE IF ~(year.v >= 2025) THEN kept
        ELSE IF row.inspection_id = "" THEN kept
        ELSE [elp    |-> (row.inspection_id :> IsTruthyText(row.oos_indicator)) @@ elp,
              raised |-> FALSE]

\* load_elp_violations over the rows of the file: the dict it returns, or
\* raised at the first row that raises
RECURSIVE LoadAll(_, _)
LoadAll(elp, rows) ==
    IF rows = <<>> THEN [elp |-> elp, raised |-> FALSE]
    ELSE LET r == LoadRow(elp, Head(rows))
         IN  IF r.raised THEN r ELSE LoadAll(r.elp, Tail(rows))

\* the end of the body of process_inspections' loop, with the date parsed:
\* a date no format parses or of a year before 2025 is skipped
CountInspection(t, date_obj, state, is_oos) ==
    IF ~date_obj.ok THEN t
    ELSE IF date_obj.year < 2025 THEN t
    ELSE Accumulate(t, YearMonth(date_obj), state, is_oos)

\* the body of process_inspections' loop for one row: the tables afterwards
InspectionBody(t, elp, row) ==
    IF row.inspection_id \notin DOMAIN elp THEN t
    ELSE IF row.report_state = "" THEN t
    ELSE IF row.insp_date = <<>> THEN t
    ELSE CountInspection(t, CsvParseDate(Strip(row.insp_date)), row.report_state,
                         elp[row.inspection_id])

\* one turn of process_inspections' loop, the reader's next row and the
\* body: the tables afterwards. raised: the reader's csv.Error for a row it
\* refuses, which the handler around the whole loop turns into sys.exit(1);
\* what the body raises is caught inside the loop
InspectionRow(t, elp, row) ==
    IF Refused(row) THEN [tables |-> t, raised |-> TRUE]
    ELSE [tables |-> InspectionBody(t, elp, row), raised |-> FALSE]

\* process_inspections over the rows of the file: the tables it has when it
\* leaves, which it returns unless raised at the first row that raises
RECURSIVE InspectAll(_, _, _)
InspectAll(t, elp, rows) ==
    IF rows = <<>> THEN [tables |-> t, raised |-> FALSE]
    ELSE LET r == InspectionRow(t, elp, Head(rows))
         IN  IF r.raised THEN r ELSE InspectAll(r.tables, elp, Tail(rows))

(***************************************************************************)
(* API pipeline: fetch_elp_violations' filter, the join, process_violations*)
(***************************************************************************)
English == Text(<<"e", "n", "g", "l", "i", "s", "h">>)

\* the ELP filter of fetch_elp_violations
IsEnglish(record) == Contains(Lower(record.section_desc), English)

FilterElp(data) == SelectSeq(data, IsEnglish)

\* Join that keeps an unresolved violation under a placeholder region
RECURSIVE JoinKeepUnresolved(_, _)
JoinKeepUnresolved(vs, sm) ==
    IF vs = <<>> THEN <<>>
    ELSE LET v == Head(vs)
         IN  <<[unique_id |-> v.unique_id, insp_date |-> v.insp_date,
                oos_indicator |-> v.oos_indicator,
                section_desc |-> v.section_desc,
                state |-> IF v.unique_id # "" /\ v.unique_id \in DOMAIN sm
                          THEN sm[v.unique_id] ELSE "NA"]>>
             \o JoinKeepUnresolved(Tail(vs), sm)

\* "Join violations with state data" of fetch_all_elp_data
RECURSIVE Join(_, _)
Join(vs, sm) ==
    IF vs = <<>> THEN <<>>
    ELSE LET v == Head(vs)
         IN  IF v.unique_id # "" /\ v.unique_id \in DOMAIN sm
             THEN <<[unique_id |-> v.unique_id, insp_date |-> v.insp_date,
                     oos_indicator |-> v.oos_indicator,
                     section_desc |-> v.section_desc,
                     state |-> sm[v.unique_id]]>> \o Join(Tail(vs), sm)
             ELSE Join(Tail(vs), sm)

\* unique_ids of fetch_all_elp_data, as the set fetch_inspection_states makes of it
UniqueIds(vs) == {vs[i].unique_id : i \in DOMAIN vs} \ {""}

\* the end of the body of process_violations' loop, with the date parsed:
\* a date neither format parses, or no state, is skipped
CountViolation(t, date_obj, state, oos_indicator) ==
    IF ~date_obj.ok THEN t
    ELSE IF state = "" \/ state = "UNKNOWN" THEN t
    ELSE Accumulate(t, YearMonth(date_obj), state, IsTruthyIndicator(oos_indicator))

\* the body of process_violations' loop for one violation: the tables afterwards
ViolationRow(t, v) ==
    IF v.insp_date = <<>> THEN t
    ELSE CountViolation(t, ApiParseDate(v.insp_date), v.state, v.oos_indicator)

RECURSIVE ProcessAll(_, _)
ProcessAll(t, vs) ==
    IF vs = <<>> THEN t ELSE ProcessAll(ViolationRow(t, Head(vs)), Tail(vs))

(***************************************************************************)
(* Arithmetic of the statistics                                            *)
(***************************************************************************)
\* round(n / d) for d > 0: Python rounds a float half to even
RoundHalfEven(n, d) ==
    LET q == n \div d
        r == n % d
    IN  IF 2 * r < d THEN q
        ELSE IF 2 * r > d THEN q + 1
        ELSE IF q % 2 = 0 THEN q ELSE q + 1

\* The floats of the source are IEEE 754 doubles.  A positive double is
\* [m, e]: m the 53 bits of its significand, most significant first, and e
\* the power of two that scales m read as an integer.
RECURSIVE BitsOf(_)
BitsOf(t) == IF t = 0 THEN <<>> ELSE Append(BitsOf(t \div 2), t % 2)

Zeros(k) == [i \in 1..k |-> 0]

\* the bits of b + 1
RECURSIVE Inc(_)
Inc(b) ==
    IF b = <<>> THEN <<1>>
    ELSE IF b[Len(b)] = 0 THEN [b EXCEPT ![Len(b)] = 1]
    ELSE Append(Inc(SubSeq(b, 1, Len(b) - 1)), 0)

\* the bits of b[1..i] * k + carry
RECURSIVE MulSmallFrom(_, _, _, _)
MulSmallFrom(b, k, i, carry) ==
    IF i = 0 THEN BitsOf(carry)
    ELSE LET v == b[i] * k + carry
         IN  IF v % 2 = 0 THEN Append(MulSmallFrom(b, k, i - 1, v \div 2), 0)
             ELSE Append(MulSmallFrom(b, k, i - 1, v \div 2), 1)

MulSmall(b, k) == MulSmallFrom(b, k, Len(b), 0)

\* -1, 0, 1: the order of two bit sequences without leading zeros
CmpBits(a, b) ==
    IF Len(a) # Len(b) THEN (IF Len(a) < Len(b) THEN -1 ELSE 1)
    ELSE LET diff == {i \in 1..Len(a) : a[i] # b[i]}
         IN  IF diff = {} THEN 0
             ELSE LET i == CHOOSE j \in diff : \A k \in diff : j <= k
                  IN  IF a[i] < b[i] THEN -1 ELSE 1

\* m with an increment that may carry into a 54th bit
Renormalized(m, e) ==
    IF Len(m) = 54 THEN [m |-> SubSeq(m, 1, 53), e |-> e + 1]
    ELSE [m |-> m, e |-> e]

\* b * 2^e rounded to a double (round to nearest, ties to even), Len(b) >= 53
RoundTo53(b, e) ==
    LET drop   == Len(b) - 53
        kept   == SubSeq(b, 1, 53)
        sticky == \E i \in 55..Len(b) : b[i] = 1
    IN  IF drop = 0 THEN [m |-> b, e |-> e]
        ELSE IF b[54] = 1 /\ (sticky \/ kept[53] = 1)
        THEN Renormalized(Inc(kept), e + drop)
        ELSE [m |-> kept, e |-> e + drop]

\* n / d = (n' / d') * 2^e with 1 <= n' / d' < 2, for n, d > 0
RECURSIVE Normalize(_, _, _)
Normalize(n, d, e) ==
    IF n >= 2 * d THEN Normalize(n, 2 * d, e + 1)
    ELSE IF n < d THEN Normalize(2 * n, d, e - 1)
    ELSE [n |-> n, d |-> d, e |-> e]

\* count more bits of the quotient with remainder r, then the last remainder
RECURSIVE DivBits(_, _, _)
DivBits(r, d, count) ==
    IF count = 0 THEN <<r>>
    ELSE IF 2 * r >= d THEN <<1>> \o DivBits(2 * r - d, d, count - 1)
    ELSE <<0>> \o DivBits(2 * r, d, count - 1)

\* the double n / d for integers n, d > 0 (correctly rounded)
FloatDiv(n, d) ==
    LET nd   == Normalize(n, d, 0)
        tail == DivBits(nd.n - nd.d, nd.d, 52)
        m    == <<1>> \o SubSeq(tail, 1, 52)
        r    == tail[53]
    IN  IF 2 * r > nd.d \/ (2 * r = nd.d /\ m[53] = 1)
        THEN Renormalized(Inc(m), nd.e - 52)
        ELSE [m |-> m, e |-> nd.e - 52]

\* the double x * 100
FloatTimes100(x) == RoundTo53(MulSmall(x.m, 100), x.e)

\* round(n / d * 100, 1) in tenths for n >= 0, d > 0.  Off a tie the float
\* is nearer to the exact quotient than to any tie, and the nearest tenth of
\* the one is that of the other; on a tie (the exact value ends in 5
\* hundredths) the double decides on which side of the tie it lies, and
\* only a double that is the tie itself is rounded half to even.
Round1Abs(n, d) ==
    LET q == (n * 1000) \div d
        r == (n * 1000) % d
    IN  IF 2 * r < d THEN q
        ELSE IF 2 * r > d THEN q + 1
        ELSE LET p   == FloatTimes100(FloatDiv(n, d))
                 lhs == MulSmall(p.m, 20) \o Zeros(IF p.e > 0 THEN p.e ELSE 0)
                 rhs == BitsOf(2 * q + 1) \o Zeros(IF p.e < 0 THEN -p.e ELSE 0)
                 c   == CmpBits(lhs, rhs)
             IN  IF c < 0 THEN q
                 ELSE IF c > 0 THEN q + 1
                 ELSE IF q % 2 = 0 THEN q ELSE q + 1

\* round(n / d * 100, 1) in tenths, d > 0
Round1(n, d) == IF n >= 0 THEN Round1Abs(n, d) ELSE -Round1Abs(-n, d)

\* a division the source evaluates: err is the ZeroDivisionError
Quotient(n, d) ==
    IF d = 0 THEN [v |-> 0, err |-> TRUE] ELSE [v |-> RoundHalfEven(n, d), err |-> FALSE]

Percent(n, d) ==
    IF d = 0 THEN [v |-> 0, err |-> TRUE] ELSE [v |-> Round1(n, d), err |-> FALSE]

Zero == [v |-> 0, err |-> FALSE]

(***************************************************************************)
(* Sorting                                                                 *)
(***************************************************************************)
\* the members of S ascending in the order of their texts
RECURSIVE SortByText(_, _)
SortByText(S, text) ==
    IF S = {} THEN <<>>
    ELSE LET m == CHOOSE x \in S : \A y \in S \ {x} : TextLess(text[x], text[y])
         IN  <<m>> \o SortByText(S \ {m}, text)

\* sorted(monthly_data.keys()): ascending in the order of the texts of the
\* keys
SortAsc(S) == SortByText(S, [ym \in S |-> MonthKey(ym)])

\* one step of a stable descending sort: x goes after every entry whose key
\* is >= its own
RECURSIVE InsertDesc(_, _)
InsertDesc(s, x) ==
    IF s = <<>> THEN <<x>>
    ELSE IF Head(s).key >= x.key THEN <<Head(s)>> \o InsertDesc(Tail(s), x)
    ELSE <<x>> \o s

\* sorted(..., key=..., reverse=True) / list.sort(key=..., reverse=True) over
\* entries [key, val]: stable, equal keys keep their original order
RECURSIVE StableSortDesc(_)
StableSortDesc(s) ==
    IF s = <<>> THEN <<>>
    ELSE InsertDesc(StableSortDesc(SubSeq(s, 1, Len(s) - 1)), s[Len(s)])

Vals(s) == [i \in 1..Len(s) |-> s[i].val]

\* s[:n]
Take(s, n) == SubSeq(s, 1, IF Len(s) < n THEN Len(s) ELSE n)

\* s[-n:]
TakeLast(s, n) == SubSeq(s, IF Len(s) < n THEN 1 ELSE Len(s) - n + 1, Len(s))

\* s[::-1]
Reverse(s) == [i \in 1..Len(s) |-> s[Len(s) + 1 - i]]

(***************************************************************************)
(* Statistics shared by both pipelines                                     *)
(***************************************************************************)
\* monthly_oos / monthly_all / monthly_labels over sorted_months
MonthlyOos(md, sorted_months) ==
    [i \in 1..Len(sorted_months) |-> Bucket(md, sorted_months[i]).oos]

MonthlyAll(md, sorted_months) ==
    [i \in 1..Len(sorted_months) |-> Bucket(md, sorted_months[i]).all]

\* the date_obj of every turn of the loop over sorted_months; ok is FALSE
\* where strptime raises
MonthDates(sorted_months) ==
    [i \in 1..Len(sorted_months) |-> StrptimeYm(MonthKey(sorted_months[i]))]

MonthlyLabels(date_objs) ==
    [i \in 1..Len(date_objs) |-> Strftime(date_objs[i])]

\* sorted(state_data.items(), key=lambda x: x[1]["oos"], reverse=True)[:10]
TopStates(sd) ==
    LET keyed  == [i \in 1..Len(sd) |-> [key |-> sd[i].oos, val |-> sd[i]]]
        ranked == Vals(StableSortDesc(keyed))
    IN  [i \in 1..Len(Take(ranked, 10)) |->
            [state |-> ranked[i].k, oos |-> ranked[i].oos, all |-> ranked[i].all]]

\* max(monthly_data.items(), key=lambda x: x[1]["oos"]): the first entry, in
\* the dict's iteration order, that reaches the maximum
PeakEntry(md) ==
    LET i == CHOOSE j \in DOMAIN md :
                 /\ \A k \in DOMAIN md : md[k].oos <= md[j].oos
                 /\ \A k \in 1..(j - 1) : md[k].oos < md[j].oos
    IN  md[i]

PeakMonthLabel(md) == IF md = <<>> THEN "N/A" ELSE Label(PeakEntry(md).k)

PeakCount(md) == IF md = <<>> THEN 0 ELSE PeakEntry(md).oos

\* total_oos / len(sorted_months) if sorted_months else 0, then round()
AvgPerMonth(t_oos, sorted_months) ==
    IF sorted_months # <<>> THEN Quotient(t_oos, Len(sorted_months)) ELSE Zero

\* round((total_oos / total_all * 100) if total_all > 0 else 0, 1)
OosRate(t_oos, t_all) == IF t_all > 0 THEN Percent(t_oos, t_all) ELSE Zero

\* len([s for s in state_data.values() if s["oos"] > 0])
StateCount(sd) == Cardinality({i \in DOMAIN sd : sd[i].oos > 0})

(***************************************************************************)
(* csv_to_json_optimized.py: calculate_biggest_movers, generate_json       *)
(***************************************************************************)
\* the changes list before sorting, in state_monthly's iteration order
RECURSIVE CsvChanges(_, _, _)
CsvChanges(sm, current_month, previous_month) ==
    IF sm = <<>> THEN <<>>
    ELSE LET current  == Bucket(Head(sm).v, current_month).oos
             previous == Bucket(Head(sm).v, previous_month).oos
             rest     == CsvChanges(Tail(sm), current_month, previous_month)
         IN  IF previous >= 5
             THEN <<[state |-> Head(sm).k,
                     change |-> Percent(current - previous, previous).v,
                     current |-> current, previous |-> previous]>> \o rest
             ELSE rest

SortChanges(changes) ==
    Vals(StableSortDesc([i \in 1..Len(changes) |->
                            [key |-> changes[i].change, val |-> changes[i]]]))

\* the sorted changes list of calculate_biggest_movers
CsvSortedChanges(sm, sorted_months) ==
    LET n == Len(sorted_months)
    IN  IF n < 3 THEN <<>>
        ELSE SortChanges(CsvChanges(sm, sorted_months[n - 1], sorted_months[n - 2]))

CsvBiggestMovers(sm, sorted_months) ==
    IF Len(sorted_months) < 3 THEN [increases |-> <<>>, decreases |-> <<>>]
    ELSE LET changes == CsvSortedChanges(sm, sorted_months)
         IN  [increases |-> IF Len(changes) >= 3 THEN Take(changes, 3) ELSE changes,
              decreases |-> IF Len(changes) >= 3 THEN Reverse(TakeLast(changes, 3))
                            ELSE <<>>]

\* a percentage of the changes list was computed with previous = 0
MoversErr(changes) == \E i \in DOMAIN changes : changes[i].previous = 0

\* generate_json's mom_change: the last two full months
CsvMomChange(monthly_oos) ==
    LET n == Len(monthly_oos)
    IN  IF n >= 3
        THEN IF monthly_oos[n - 2] > 0
             THEN Percent(monthly_oos[n - 1] - monthly_oos[n - 2], monthly_oos[n - 2])
             ELSE Zero
        ELSE IF n >= 2
        THEN IF monthly_oos[n - 1] > 0
             THEN Percent(monthly_oos[n] - monthly_oos[n - 1], monthly_oos[n - 1])
             ELSE Zero
        ELSE Zero

\* d[label] = cell of the dict a comprehension builds: a label that is there
\* already keeps its place and takes the new value
SetLabel(d, cell) ==
    LET at == {i \in DOMAIN d : d[i].label = cell.label}
    IN  IF at = {} THEN Append(d, cell)
        ELSE [d EXCEPT ![CHOOSE i \in at : TRUE] = cell]

\* the inner dict of the "state_monthly" field for one state, over the first
\* n pairs of zip(sorted_months, monthly_labels): the cells of the months
\* the state has, keyed by label; the months of one label (the same month a
\* century apart) share one entry, the last one's
RECURSIVE LabelledCells(_, _, _, _)
LabelledCells(months, sorted_months, monthly_labels, n) ==
    IF n = 0 THEN <<>>
    ELSE LET month_key == sorted_months[n]
             rest      == LabelledCells(months, sorted_months, monthly_labels, n - 1)
         IN  IF Has(months, month_key)
             THEN SetLabel(rest, [label |-> monthly_labels[n],
                                  oos   |-> Bucket(months, month_key).oos,
                                  all   |-> Bucket(months, month_key).all])
             ELSE rest

\* the "state_monthly" field: per state, the months it has, in sorted order
CsvStateMonthlyOut(sm, sorted_months, monthly_labels) ==
    [i \in 1..Len(sm) |->
        [state  |-> sm[i].k,
         months |-> LabelledCells(sm[i].v, sorted_months, monthly_labels,
                                  Len(sorted_months))]]

\* strptime(month, "%Y-%m") raises in the loop over sorted_months
LabelsRaise(date_objs) == \E i \in DOMAIN date_objs : ~date_objs[i].ok

\* the exception that escapes the derivation of the statistics, "" if none:
\* strptime(month, "%Y-%m") in the loop over sorted_months comes first
Escaped(date_objs, zero_division) ==
    IF LabelsRaise(date_objs)
    THEN "ValueError"
    ELSE IF zero_division THEN "ZeroDivisionError"
    ELSE ""

\* generate_json (every field but last_updated); raised: an exception
\* escaped
GenerateJsonOf(t) ==
    LET sorted_months == SortAsc(Keys(t.monthly_data))
        date_objs     == MonthDates(sorted_months)
        labels        == MonthlyLabels(date_objs)
        monthly_oos   == MonthlyOos(t.monthly_data, sorted_months)
        avg           == AvgPerMonth(t.total_oos, sorted_months)
        mom           == CsvMomChange(monthly_oos)
        rate          == OosRate(t.total_oos, t.total_all)
        movers        == CsvBiggestMovers(t.state_monthly, sorted_months)
        escaped       == Escaped(date_objs,
                                 \/ avg.err \/ mom.err \/ rate.err
                                 \/ MoversErr(CsvSortedChanges(t.state_monthly,
                                                               sorted_months)))
    IN  [total_oos      |-> t.total_oos,
         total_all      |-> t.total_all,
         oos_rate       |-> rate.v,
         avg_per_month  |-> avg.v,
         peak_month     |-> PeakMonthLabel(t.monthly_data),
         peak_count     |-> PeakCount(t.monthly_data),
         mom_change     |-> mom.v,
         monthly        |-> [labels |-> labels,
                             oos    |-> monthly_oos,
                             all    |-> MonthlyAll(t.monthly_data, sorted_months)],
         states         |-> TopStates(t.state_data),
         state_monthly  |-> CsvStateMonthlyOut(t.state_monthly, sorted_months, labels),
         biggest_movers |-> movers,
         state_count    |-> StateCount(t.state_data),
         data_source    |-> "real",
         exception      |-> escaped,
         raised         |-> escaped # ""]

(***************************************************************************)
(* update_data.py: calculate_biggest_movers, the statistics of             *)
(* process_violations                                                      *)
(***************************************************************************)
RECURSIVE ApiChanges(_, _, _)
ApiChanges(sm, current_month, previous_month) ==
    IF sm = <<>> THEN <<>>
    ELSE LET current  == Bucket(Head(sm).v, current_month).oos
             previous == Bucket(Head(sm).v, previous_month).oos
             rest     == ApiChanges(Tail(sm), current_month, previous_month)
         IN  IF previous > 0
             THEN <<[state |-> Head(sm).k,
                     previous |-> previous, current |-> current,
                     change |-> Percent(current - previous, previous).v]>> \o rest
             ELSE rest

ApiSortedChanges(sm, sorted_months) ==
    LET n == Len(sorted_months)
    IN  IF n < 2 THEN <<>>
        ELSE SortChanges(ApiChanges(sm, sorted_months[n], sorted_months[n - 1]))

ApiBiggestMovers(sm, sorted_months) ==
    IF Len(sorted_months) < 2 THEN [increases |-> <<>>, decreases |-> <<>>]
    ELSE LET changes == ApiSortedChanges(sm, sorted_months)
         IN  [increases |-> Take(SelectSeq(changes, LAMBDA c : c.change > 0), 3),
              decreases |-> Take(SelectSeq(changes, LAMBDA c : c.change < 0), 3)]

\* process_violations' mom_change: the last two months
ApiMomChange(monthly_oos) ==
    LET n == Len(monthly_oos)
    IN  IF n >= 2
        THEN IF monthly_oos[n - 1] > 0
             THEN Percent(monthly_oos[n] - monthly_oos[n - 1], monthly_oos[n - 1])
             ELSE Zero
        ELSE Zero

\* the result dict of process_violations (every field but last_updated);
\* raised: an exception escaped, and the other fields are not returned
ProcessResultOf(t) ==
    LET sorted_months == SortAsc(Keys(t.monthly_data))
        date_objs     == MonthDates(sorted_months)
        monthly_oos   == MonthlyOos(t.monthly_data, sorted_months)
        movers        == ApiBiggestMovers(t.state_monthly, sorted_months)
        avg           == AvgPerMonth(t.total_oos, sorted_months)
        mom           == ApiMomChange(monthly_oos)
        rate          == OosRate(t.total_oos, t.total_all)
        escaped       == Escaped(date_objs,
                                 \/ avg.err \/ mom.err \/ rate.err
                                 \/ MoversErr(ApiSortedChanges(t.state_monthly,
                                                               sorted_months)))
    IN  [total_oos      |-> t.total_oos,
         total_all      |-> t.total_all,
         oos_rate       |-> rate.v,
         avg_per_month  |-> avg.v,
         peak_month     |-> PeakMonthLabel(t.monthly_data),
         peak_count     |-> PeakCount(t.monthly_data),
         mom_change     |-> mom.v,
         monthly        |-> [labels |-> MonthlyLabels(date_objs),
                             oos    |-> monthly_oos,
                             all    |-> MonthlyAll(t.monthly_data, sorted_months)],
         states         |-> TopStates(t.state_data),
         biggest_movers |-> movers,
         state_count    |-> StateCount(t.state_data),
         data_source    |-> "real",
         exception      |-> escaped,
         raised         |-> escaped # ""]

\* state_monthly after calculate_biggest_movers: it reads
\* monthly_data[current_month] and monthly_data[previous_month] of every
\* state, and the read of a defaultdict inserts the cell that is missing
ApiMoversTouched(sm, sorted_months) ==
    LET n == Len(sorted_months)
    IN  IF n < 2 THEN sm
        ELSE [i \in DOMAIN sm |->
                 [k |-> sm[i].k,
                  v |-> Touch(Touch(sm[i].v, sorted_months[n]), sorted_months[n - 1])]]

\* the tables at the end of process_violations, which exception escapes:
\* calculate_biggest_movers is called after the loop that makes the labels,
\* which a ValueError leaves
TablesAfter(t, exception) ==
    IF exception = "ValueError" THEN t
    ELSE [t EXCEPT !.state_monthly =
                       ApiMoversTouched(@, SortAsc(Keys(t.monthly_data)))]

ProcessTablesOf(t) == TablesAfter(t, ProcessResultOf(t).exception)

\* process_violations over the joined violations: the tables it ends with
ProcessViolations(vs) == ProcessTablesOf(ProcessAll(EmptyTables, vs))

NoResult == [data_source |-> "none"]

(***************************************************************************)
(* Inputs of the model                                                     *)
(***************************************************************************)
Txt391 == Text(<<"3", "9", "1">>)
Txt392 == Text(<<"3", "9", "2">>)
TxtSec11b2 == Text(<<"1", "1", "(", "b", ")", "(", "2", ")">>)
\* "11B2-S" after a tab and before a no-break space (U+00A0)
TxtSec11B2S == <<9>> \o Text(<<"1", "1", "B", "2", "-", "S">>) \o <<160>>
TxtSec11B3 == Text(<<"1", "1", "B", "3">>)
TxtNoEnglish == Text(<<"N", "o", " ", "E", "n", "g", "l", "i", "s", "h">>)
TxtNoLicense == Text(<<"N", "o", " ", "C", "D", "L">>)
OosY == Text(<<"Y">>)
OosN == Text(<<"N">>)
\* "ye" and a long s (U+017F, upper case "S") after a vertical tab and
\* before a next-line character (U+0085)
OosYes == <<11>> \o Text(<<"y", "e">>) \o <<383, 133>>
OosTRUE == Text(<<"T", "R", "U", "E">>)
OosFALSE == Text(<<"F", "A", "L", "S", "E">>)

DateJan == Text(<<"2", "0", "2", "5", "0", "1", "1", "5">>)
\* with a time after a blank, as CHANGE_DATE has it
DateJanTime == DateJan \o Text(<<" ", "0", "9", "3", "0">>)
Date2024 == Text(<<"2", "0", "2", "4", "1", "2", "3", "1">>)
\* "20250115" with a superscript two (U+00B2) for its first digit
DateJanSuperscript == <<178>> \o Text(<<"0", "2", "5", "0", "1", "1", "5">>)
DateFeb == Text(<<"1", "0", "-", "F", "e", "b", "-", "2", "5">>)
DateFebSlash == Text(<<"2", "/", "1", "0", "/", "2", "0", "2", "5">>)
DateJanIso == Text(<<"2", "0", "2", "5", "-", "0", "1", "-", "1", "5">>)
\* ISO 8601 with a time: the source cuts it at the "T"
DateJanIsoTime == DateJanIso \o Text(<<"T", "0", "0", ":", "0", "0", ":", "0", "0">>)
\* the Monday of ISO week 3 of 2025, 13 January
DateJanWeek == Text(<<"2", "0", "2", "5", "-", "W", "0", "3", "-", "1">>)
\* " 2025-01-15": a date after a blank
DateJanBlank == <<32>> \o DateJanIso
DateOld == Text(<<"2", "0", "2", "4", "-", "1", "2", "-", "3", "1">>)
\* 15 January of the year 999
DateYear999 == Text(<<"0", "9", "9", "9", "-", "0", "1", "-", "1", "5">>)
\* 15 January 2125, whose label "Jan 25" is that of January 2025
DateJan2125 == Text(<<"2", "1", "2", "5", "0", "1", "1", "5">>)
DateBad == Text(<<"2", "0", "2", "5", "1", "3", "0", "1">>)
DateText == Text(<<"n", "o", "t", "-", "a", "-", "d", "a", "t", "e">>)

\* s repeated 2^n times
RECURSIVE Doubled(_, _)
Doubled(s, n) == IF n = 0 THEN s ELSE Doubled(s \o s, n - 1)

\* a field of one character more than the reader's limit, 2^17
OverLimit == Doubled("9", 17) \o "9"

CsvViolation(part, sec, date, id, oos) ==
    [part_no |-> part, part_section |-> sec, change_date |-> date,
     inspection_id |-> id, oos_indicator |-> oos]

\* rows of violations.csv
ViolationRows ==
    {CsvViolation(Txt391, TxtSec11B2S, DateJan, "1", o) : o \in {OosY, OosN}}
    \cup {CsvViolation(Txt391, TxtSec11b2, DateJan, "2", o) : o \in {OosYes, OosN}}
    \cup {CsvViolation(Txt392, TxtSec11b2, DateJan, "1", OosY),
          CsvViolation(Txt391, TxtSec11B3, DateJan, "1", OosY),
          CsvViolation(Txt391, TxtSec11b2, Date2024, "2", OosY),
          CsvViolation(Txt391, TxtSec11b2, DateText, "2", OosY),
          CsvViolation(Txt391, TxtSec11b2, DateJanTime, "2", OosY),
          CsvViolation(Txt391, TxtSec11b2, DateJanSuperscript, "2", OosY),
          CsvViolation(Txt391, TxtSec11b2, DateJan, "", OosY),
          CsvViolation(Txt391, TxtSec11b2, DateJan, OverLimit, OosY)}

CsvInspection(id, state, date) ==
    [inspection_id |-> id, report_state |-> state, insp_date |-> date]

\* rows of inspections.csv
InspectionRows ==
    {CsvInspection(id, st, dt) :
        id \in {"1", "2"}, st \in {"CA", "TX"}, dt \in {DateJan, DateFeb}}
    \cup {CsvInspection("3", "CA", DateJan),
          CsvInspection("", "CA", DateJan),
          CsvInspection("1", "", DateJan),
          CsvInspection("1", "CA", <<>>),
          CsvInspection("1", "CA", DateBad),
          CsvInspection("1", "CA", DateJanWeek),
          CsvInspection("1", "CA", DateJanBlank),
          CsvInspection("1", "CA", DateFebSlash),
          CsvInspection("1", "CA", DateJan2125),
          CsvInspection("1", "CA", DateText),
          CsvInspection("1", "CA", DateOld),
          CsvInspection("1", OverLimit, DateJan)}

ApiViolation(id, date, oos, sec) ==
    [unique_id |-> id, insp_date |-> date, oos_indicator |-> oos,
     section_desc |-> sec]

\* records of the violations dataset, after the field-name normalisation
ApiViolationRows ==
    {ApiViolation(id, dt, o, TxtNoEnglish) :
        id \in {"1", "2"}, dt \in {DateFeb, DateJanIsoTime},
        o \in {OosTRUE, OosFALSE}}
    \cup {ApiViolation("1", DateFeb, OosTRUE, TxtNoLicense),
          ApiViolation("", DateFeb, OosTRUE, TxtNoEnglish),
          ApiViolation("1", <<>>, OosTRUE, TxtNoEnglish),
          ApiViolation("1", DateJanBlank, OosTRUE, TxtNoEnglish),
          ApiViolation("1", DateYear999, OosTRUE, TxtNoEnglish),
          ApiViolation("1", DateText, OosTRUE, TxtNoEnglish),
          ApiViolation("1", DateOld, OosTRUE, TxtNoEnglish)}

Regions == {"CA", "TX"}

\* sequences over S of length 0..n
RECURSIVE SeqsUpTo(_, _)
SeqsUpTo(S, n) ==
    IF n = 0 THEN {<<>>}
    ELSE LET shorter == SeqsUpTo(S, n - 1)
         IN  shorter \cup {Append(q, x) : q \in {r \in shorter : Len(r) = n - 1}, x \in S}

\* the partial maps fetch_inspection_states can return for a set of identifiers
StateMaps(ids) ==
    UNION {[d -> Regions] : d \in SUBSET ids}

(***************************************************************************)
(* Program constants                                                       *)
(***************************************************************************)
\* page size of both pagination loops (10000 in the source, scaled down: the
\* loops only compare a batch's length with it)
limit == 2
max_batches_violations == 25
max_batches == 30
\* main of csv_to_json_optimized.py asks before it goes on with fewer records
expected_violations == 40000

(***************************************************************************)
(* State machine                                                           *)
(***************************************************************************)
Tables ==
    [monthly_data |-> monthly_data, state_data |-> state_data,
     state_monthly |-> state_monthly, total_oos |-> total_oos,
     total_all |-> total_all]

SetTables(t) ==
    /\ monthly_data' = t.monthly_data
    /\ state_data' = t.state_data
    /\ state_monthly' = t.state_monthly
    /\ total_oos' = t.total_oos
    /\ total_all' = t.total_all

tableVars == <<monthly_data, state_data, state_monthly, total_oos, total_all>>
csvVars   == <<vrows, elp_violations, irows>>
apiVars   == <<all_violations, vbatch, state_map, violations, vidx>>
fetchVars == <<target_ids, batch_num, offset, observed, stop, request>>

InitCommon ==
    /\ vrows = <<>>
    /\ elp_violations = EmptyMap
    /\ irows = <<>>
    /\ all_violations = <<>>
    /\ vbatch = 0
    /\ state_map = EmptyMap
    /\ violations = <<>>
    /\ vidx = 0
    /\ monthly_data = <<>>
    /\ state_data = <<>>
    /\ state_monthly = <<>>
    /\ total_oos = 0
    /\ total_all = 0
    /\ result = NoResult
    /\ target_ids = {}
    /\ batch_num = 0
    /\ offset = 0
    /\ observed = <<>>
    /\ stop = ""
    /\ request = [n |-> 0, offset |-> 0, ok |-> TRUE]

Init ==
    /\ InitCommon
    /\ mode \in {"csv", "api"}
    /\ pc = IF mode = "csv" THEN "load" ELSE "fetch"

----------------------------------------------------------------------------
\* load_elp_violations reads one more row of violations.csv; a row that
\* raises takes it to the handler around its loop, which ends the run with
\* sys.exit(1)
CsvLoadRow ==
    /\ mode = "csv" /\ pc = "load"
    /\ Len(vrows) < MaxViolRows
    /\ \E row \in ViolationRows :
          /\ vrows' = IF Refused(row) THEN vrows ELSE Append(vrows, row)
          /\ elp_violations' = LoadRow(elp_violations, row).elp
          /\ pc' = IF LoadRow(elp_violations, row).raised THEN "load_exit_1" ELSE pc
    /\ UNCHANGED <<mode, irows, apiVars, tableVars, result, fetchVars>>

\* load_elp_violations reaches the end of the file and returns the dict;
\* main exits with status 1 on an empty dict
CsvEndLoad ==
    /\ mode = "csv" /\ pc = "load"
    /\ pc' = IF elp_violations = EmptyMap THEN "exit_1" ELSE "inspect"
    /\ UNCHANGED <<mode, csvVars, apiVars, tableVars, result, fetchVars>>

\* process_inspections after a turn of its loop that ended with r: main
\* exits with status 1 when the turn raised
CsvInspected(r) ==
    /\ SetTables(r.tables)
    /\ pc' = IF r.raised THEN "inspect_exit_1" ELSE pc

\* process_inspections reads one more row of inspections.csv; a row the
\* reader refuses is not read
CsvInspectRow ==
    /\ mode = "csv" /\ pc = "inspect"
    /\ Len(irows) < MaxInspRows
    /\ \E row \in InspectionRows :
          /\ irows' = IF Refused(row) THEN irows ELSE Append(irows, row)
          /\ CsvInspected(InspectionRow(Tables, elp_violations, row))
    /\ UNCHANGED <<mode, vrows, elp_violations, apiVars, result, fetchVars>>

\* the answers to "Continue anyway? (y/n)"
Responses ==
    {Text(<<"y">>), Text(<<"Y">>), Text(<<"n">>), <<>>, Text(<<"y", "e", "s">>)}

\* main once generate_json has ended with r: an exception that escaped it
\* ends main with a traceback, and so does an error of open or json.dump
\* when main writes the file (saved = FALSE)
CsvSaveData(r, saved) ==
    IF r.raised
    THEN pc' = "traceback" /\ UNCHANGED result
    ELSE /\ result' = r
         /\ pc' = IF saved THEN "done" ELSE "traceback"

\* process_inspections returns at the end of the file. main exits with
\* status 1 when nothing was counted; below expected_violations it asks
\* "Continue anyway? (y/n)": input() raises EOFError at the end of the
\* standard input (eof), which nothing catches, and main exits with status 0
\* unless the answer is y or Y. Otherwise generate_json runs and main writes
\* the file (saved), where an error of open or json.dump is not caught
\* either
CsvGenerateJson ==
    /\ mode = "csv" /\ pc = "inspect"
    /\ \E response \in Responses : \E eof \in BOOLEAN : \E saved \in BOOLEAN :
          IF total_all = 0
          THEN pc' = "exit_1" /\ UNCHANGED result
          ELSE IF total_all < expected_violations /\ eof
          THEN pc' = "traceback" /\ UNCHANGED result
          ELSE IF total_all < expected_violations /\ Lower(response) # Text(<<"y">>)
          THEN pc' = "exit_0" /\ UNCHANGED result
          ELSE CsvSaveData(GenerateJsonOf(Tables), saved)
    /\ UNCHANGED <<mode, csvVars, apiVars, tableVars, fetchVars>>

----------------------------------------------------------------------------
\* one iteration of fetch_all_elp_data's loop over the responses in batches,
\* at most max_rows records in all. ok = FALSE is a failed request
\* (fetch_elp_violations returns [], 0). vrows records the records received.
FetchViolationsStep(batches, max_rows) ==
    /\ \E ok \in BOOLEAN :
       \E data \in batches :
          /\ ok => Len(vrows) + Len(data) <= max_rows
          /\ ~ok => data = <<>>
          /\ request' = [n |-> request.n + 1, offset |-> offset, ok |-> ok]
          /\ LET elp_batch     == IF ok THEN FilterElp(data) ELSE <<>>
                 total_fetched == IF ok THEN Len(data) ELSE 0
             IN  IF elp_batch = <<>> /\ total_fetched = 0
                 THEN /\ pc' = "states"
                      /\ UNCHANGED <<vrows, all_violations, offset, vbatch>>
                 ELSE /\ vrows' = vrows \o data
                      /\ all_violations' = all_violations \o elp_batch
                      /\ IF total_fetched < limit
                         THEN /\ pc' = "states"
                              /\ UNCHANGED <<offset, vbatch>>
                         ELSE /\ offset' = offset + limit
                              /\ vbatch' = vbatch + 1
                              /\ pc' = IF vbatch + 1 < max_batches_violations
                                       THEN "fetch" ELSE "states"
    /\ UNCHANGED <<mode, elp_violations, irows, state_map, violations, vidx,
                   tableVars, result, target_ids, batch_num, observed, stop>>

ApiFetchViolations ==
    /\ mode = "api" /\ pc = "fetch"
    /\ FetchViolationsStep(SeqsUpTo(ApiViolationRows, limit), MaxViolRows)

\* fetch_all_elp_data calls fetch_inspection_states(unique_ids); with no
\* violations it returns [] before that, and main exits with status 1
ApiFetchStates ==
    /\ mode = "api" /\ pc = "states"
    /\ IF all_violations = <<>>
       THEN /\ pc' = "exit_1"
            /\ UNCHANGED state_map
       ELSE /\ state_map' \in StateMaps(UniqueIds(all_violations))
            /\ pc' = "join"
    /\ UNCHANGED <<mode, csvVars, all_violations, vbatch, violations, vidx,
                   tableVars, result, fetchVars>>

\* fetch_all_elp_data joins the violations with the state data and returns;
\* main exits with status 1 when no violation has a region
ApiJoin ==
    /\ mode = "api" /\ pc = "join"
    /\ violations' = Join(all_violations, state_map)
    /\ pc' = IF violations' = <<>> THEN "exit_1" ELSE "process"
    /\ UNCHANGED <<mode, csvVars, all_violations, vbatch, state_map, vidx,
                   tableVars, result, fetchVars>>

\* one iteration of process_violations' loop
ApiProcessRow ==
    /\ mode = "api" /\ pc = "process"
    /\ vidx < Len(violations)
    /\ SetTables(ViolationRow(Tables, violations[vidx + 1]))
    /\ vidx' = vidx + 1
    /\ UNCHANGED <<mode, pc, csvVars, all_violations, vbatch, state_map,
                   violations, result, fetchVars>>

\* main once process_violations has ended with r: an exception that
\* escaped it ends main with a traceback; otherwise main calls save_data
\* and exits with status 1 when that fails (saved = FALSE)
ApiSaveData(r) ==
    /\ SetTables(TablesAfter(Tables, r.exception))
    /\ IF r.raised
       THEN pc' = "traceback" /\ UNCHANGED result
       ELSE \E saved \in BOOLEAN :
               /\ result' = r
               /\ pc' = IF saved THEN "done" ELSE "exit_1"

\* process_violations derives the statistics after its loop, where
\* calculate_biggest_movers adds cells to state_monthly, and main saves
\* the result
ApiFinish ==
    /\ mode = "api" /\ pc = "process"
    /\ vidx = Len(violations)
    /\ ApiSaveData(ProcessResultOf(Tables))
    /\ UNCHANGED <<mode, csvVars, apiVars, fetchVars>>

Next ==
    \/ CsvLoadRow
    \/ CsvEndLoad
    \/ CsvInspectRow
    \/ CsvGenerateJson
    \/ ApiFetchViolations
    \/ ApiFetchStates
    \/ ApiJoin
    \/ ApiProcessRow
    \/ ApiFinish

Spec == Init /\ [][Next]_vars

TypeOK ==
    /\ mode \in {"csv", "api", "fetch", "stats", "movers", "classify",
                "page_violations", "page_inspections"}
    /\ total_oos \in Nat /\ total_all \in Nat

(***************************************************************************)
(* Properties of the aggregation (specification Spec)                      *)
(***************************************************************************)
Done == pc = "done"

\* the entries of a bucket table, without the insertion order
Content(d) == Range(d)

Content2(sm) == {[k |-> sm[i].k, v |-> Range(sm[i].v)] : i \in DOMAIN sm}

TableContent(t) ==
    [monthly_data |-> Content(t.monthly_data), state_data |-> Content(t.state_data),
     state_monthly |-> Content2(t.state_monthly),
     total_oos |-> t.total_oos, total_all |-> t.total_all]

OosSeq(d) == [i \in 1..Len(d) |-> d[i].oos]
AllSeq(d) == [i \in 1..Len(d) |-> d[i].all]

\* the cells of the state x month table as one sequence
RECURSIVE Cells(_)
Cells(sm) == IF sm = <<>> THEN <<>> ELSE Head(sm).v \o Cells(Tail(sm))

UniqueKeys(d) == \A i, j \in DOMAIN d : d[i].k = d[j].k => i = j

\* C1: every bucket has oos <= all: each monthly bucket, each state bucket,
\* each state x month cell, and total_oos <= total_all
C1_OosAtMostAll ==
    /\ \A i \in DOMAIN monthly_data : monthly_data[i].oos <= monthly_data[i].all
    /\ \A i \in DOMAIN state_data : state_data[i].oos <= state_data[i].all
    /\ \A i \in DOMAIN Cells(state_monthly) :
          Cells(state_monthly)[i].oos <= Cells(state_monthly)[i].all
    /\ total_oos <= total_all

\* out-of-service and other records have both been accumulated
C1_Witness ==
    /\ total_oos >= 1 /\ total_oos < total_all
    /\ \E i \in DOMAIN Cells(state_monthly) :
          /\ Cells(state_monthly)[i].oos >= 1
          /\ Cells(state_monthly)[i].oos < Cells(state_monthly)[i].all

\* the months of the state x month table
CellMonths(sm) == UNION {Keys(sm[i].v) : i \in DOMAIN sm}

ColumnOos(sm, ym) == SumSeq([i \in 1..Len(sm) |-> Bucket(sm[i].v, ym).oos])
ColumnAll(sm, ym) == SumSeq([i \in 1..Len(sm) |-> Bucket(sm[i].v, ym).all])

\* C2: every aggregated record is in exactly one monthly bucket, one state
\* bucket and one state x month cell keyed from that record: the three tables
\* each sum to the totals, each state's bucket is the sum of its row and each
\* month's bucket the sum of its column of the state x month table
C2_TablesConsistent ==
    /\ UniqueKeys(monthly_data) /\ UniqueKeys(state_data) /\ UniqueKeys(state_monthly)
    /\ \A i \in DOMAIN state_monthly : UniqueKeys(state_monthly[i].v)
    /\ SumSeq(AllSeq(monthly_data)) = total_all
    /\ SumSeq(OosSeq(monthly_data)) = total_oos
    /\ SumSeq(AllSeq(state_data)) = total_all
    /\ SumSeq(OosSeq(state_data)) = total_oos
    /\ SumSeq(AllSeq(Cells(state_monthly))) = total_all
    /\ SumSeq(OosSeq(Cells(state_monthly))) = total_oos
    /\ Keys(state_monthly) = Keys(state_data)
    /\ CellMonths(state_monthly) = Keys(monthly_data)
    /\ \A i \in DOMAIN state_data :
          /\ state_data[i].all = SumSeq(AllSeq(Inner(state_monthly, state_data[i].k)))
          /\ state_data[i].oos = SumSeq(OosSeq(Inner(state_monthly, state_data[i].k)))
    /\ \A i \in DOMAIN monthly_data :
          /\ monthly_data[i].all = ColumnAll(state_monthly, monthly_data[i].k)
          /\ monthly_data[i].oos = ColumnOos(state_monthly, monthly_data[i].k)

\* records of two months and two states, one of them out of service
C2_Witness ==
    /\ Len(monthly_data) >= 2 /\ Len(state_data) >= 2
    /\ total_oos >= 1

\* the count tables a run ends with when the same records come in another order
PermutedTables ==
    IF mode = "csv"
    THEN {InspectAll(EmptyTables, LoadAll(EmptyMap, pv).elp, pi).tables :
              pv \in SeqPerms(vrows), pi \in SeqPerms(irows)}
    ELSE {ProcessViolations(Join(p, state_map)) : p \in SeqPerms(all_violations)}

\* C3: the final contents of the monthly, state and state x month tables and
\* of the totals are the same for every permutation of the input records
C3_OrderIndependent ==
    Done => \A t \in PermutedTables : TableContent(t) = TableContent(Tables)

\* a snapshot with its "state_monthly" object read as a mapping
SnapshotValue(r) ==
    IF mode = "csv"
    THEN [r EXCEPT !.state_monthly =
             {[state |-> r.state_monthly[i].state,
               months |-> Range(r.state_monthly[i].months)] :
                 i \in DOMAIN r.state_monthly}]
    ELSE r

SnapshotOf(t) == IF mode = "csv" THEN GenerateJsonOf(t) ELSE ProcessResultOf(t)

\* C4: shuffling the input records yields an identical snapshot, ties in the
\* ranked states list, in peak_month and in biggest_movers included. Stated
\* for the shuffles that leave the contents of the count tables unchanged
\* (C3 is about the others), so that a violation is one of tie-breaking.
C4_SnapshotOrderIndependent ==
    Done => \A t \in PermutedTables :
                TableContent(t) = TableContent(Tables)
                    => SnapshotValue(SnapshotOf(t)) = SnapshotValue(result)

\* csv: identifiers of the inspections that carry a region, and of the
\* target-category violations
ResolvedIds == {irows[i].inspection_id : i \in {j \in DOMAIN irows : irows[j].report_state # ""}}
TargetIds == {vrows[i].inspection_id : i \in {j \in DOMAIN vrows : IsElp(vrows[j])}}

\* the tables of the run over the input without the violations that never
\* resolve to a region and without the inspections that match no
\* target-category violation
TablesWithoutUnmatched ==
    IF mode = "csv"
    THEN InspectAll(EmptyTables,
                    LoadAll(EmptyMap,
                            SelectSeq(vrows,
                                      LAMBDA v : v.inspection_id \in ResolvedIds)).elp,
                    SelectSeq(irows, LAMBDA r : r.inspection_id \in TargetIds)).tables
    ELSE ProcessViolations(Join(SelectSeq(all_violations,
                                          LAMBDA v : v.unique_id \in DOMAIN state_map),
                                state_map))

\* C7: unresolved violations and unmatched inspections change no bucket and
\* no total: the aggregate is that of the input with those records removed
C7_UnmatchedContributeNothing ==
    Done => /\ Tables = TablesWithoutUnmatched
            /\ result = SnapshotOf(TablesWithoutUnmatched)

\* a finished run of the CSV pipeline that counted a record, and whose input
\* had a target-category violation of an inspection that is not in the file
\* and an inspection that matches no target-category violation
C7_Witness ==
    /\ Done /\ mode = "csv" /\ total_all >= 1
    /\ \E i \in DOMAIN vrows :
          /\ IsElp(vrows[i]) /\ vrows[i].inspection_id # ""
          /\ vrows[i].inspection_id \notin ResolvedIds
    /\ \E i \in DOMAIN irows :
          /\ irows[i].inspection_id # ""
          /\ irows[i].inspection_id \notin TargetIds

WellFormedInspection(r) ==
    /\ r.inspection_id # "" /\ r.report_state # ""
    /\ r.insp_date # <<>> /\ CsvParseDate(Strip(r.insp_date)).ok

\* a row of violations.csv with an identifier and a date of eight decimal
\* digits
WellFormedCsvViolation(v) ==
    LET date_part == FirstWord(Strip(v.change_date))
    IN  /\ v.inspection_id # ""
        /\ Len(date_part) = 8 /\ \A i \in 1..8 : IsDecimal(date_part[i])

WellFormedViolation(v) ==
    /\ v.unique_id # ""
    /\ v.insp_date # <<>> /\ ApiParseDate(v.insp_date).ok

\* the tables of the run over the input without the malformed records
TablesWithoutMalformed ==
    IF mode = "csv"
    THEN InspectAll(EmptyTables,
                    LoadAll(EmptyMap, SelectSeq(vrows, WellFormedCsvViolation)).elp,
                    SelectSeq(irows, WellFormedInspection)).tables
    ELSE ProcessViolations(Join(SelectSeq(all_violations, WellFormedViolation),
                                state_map))

\* C8: a malformed record (missing or unparseable date, missing region,
\* missing identifier) is excluded on its own and never aborts the run:
\* no record load_elp_violations has read ends the run, the run completes
\* with the buckets of the same sequence without the malformed records, and
\* before that no excluded record has incremented any bucket
C8_MalformedExcluded ==
    /\ mode = "csv" => ~LoadAll(EmptyMap, vrows).raised
    /\ Done => /\ Tables = TablesWithoutMalformed
               /\ result = SnapshotOf(TablesWithoutMalformed)
    /\ (mode = "csv" /\ pc = "inspect") =>
          Tables = InspectAll(EmptyTables, elp_violations,
                              SelectSeq(irows, WellFormedInspection)).tables

(***************************************************************************)
(* update_data.py: fetch_inspection_states (specification SpecFetch)       *)
(***************************************************************************)
ApiInspection(id, state) == [unique_id |-> id, report_state |-> state]

\* records of the inspections dataset ($select Unique_ID, Report_State)
ApiInspectionRows ==
    {ApiInspection(id, st) : id \in {"1", "2"}, st \in {"CA", "TX", ""}}
    \cup {ApiInspection("", "CA")}

\* twenty identifiers, the fewest of which 95% are not all
ManyIds ==
    <<"1", "2", "3", "4", "5", "6", "7", "8", "9", "10", "11", "12", "13", "14",
      "15", "16", "17", "18", "19", "20">>

\* the inspections dataset the requests for the twenty identifiers are
\* served from, by offset: the identifiers "1" to "19" with a region, then
\* an inspection of no interest, then "20", then another of no interest
ManySource ==
    [i \in 1..22 |->
        IF i <= 19 THEN ApiInspection(ManyIds[i], IF i % 2 = 1 THEN "CA" ELSE "TX")
        ELSE IF i = 21 THEN ApiInspection("20", "TX")
        ELSE ApiInspection("0", "CA")]

\* the rows $offset, $limit select of a dataset
Page(source, from) ==
    SubSeq(source, from + 1,
           IF from + limit < Len(source) THEN from + limit ELSE Len(source))

\* the identifier sets fetch_inspection_states is called with
TargetIdSets == (SUBSET {"1", "2"}) \cup {Range(ManyIds)}

\* "Match inspections to our violation IDs" with the first region kept
RECURSIVE ApplyBatchFirstSeen(_, _, _)
ApplyBatchFirstSeen(sm, targets, inspections) ==
    IF inspections = <<>> THEN sm
    ELSE LET uid   == Head(inspections).unique_id
             state == Head(inspections).report_state
             next  == IF uid \in targets /\ state # "" /\ uid \notin DOMAIN sm
                      THEN (uid :> state) @@ sm ELSE sm
         IN  ApplyBatchFirstSeen(next, targets, Tail(inspections))

\* "Match inspections to our violation IDs": state_map after one batch
RECURSIVE ApplyBatch(_, _, _)
ApplyBatch(sm, targets, inspections) ==
    IF inspections = <<>> THEN sm
    ELSE LET uid   == Head(inspections).unique_id
             state == Head(inspections).report_state
             next  == IF uid \in targets /\ state # ""
                      THEN (uid :> state) @@ sm ELSE sm
         IN  ApplyBatch(next, targets, Tail(inspections))

\* the early stop with half of the identifiers mapped
MappedHalf(sm, targets) ==
    Cardinality(DOMAIN sm) * 100 >= Cardinality(targets) * 50

\* len(state_map) >= len(target_ids) * 0.95
MappedEnough(sm, targets) ==
    Cardinality(DOMAIN sm) * 100 >= Cardinality(targets) * 95

InitFetch ==
    /\ InitCommon
    /\ mode = "fetch"
    /\ pc = "call"

\* fetch_inspection_states(unique_ids) is entered: {} at once for no ids
FetchCall ==
    /\ mode \in {"fetch", "page_inspections"} /\ pc = "call"
    /\ \E ids \in TargetIdSets :
          /\ target_ids' = ids
          /\ IF ids = {}
             THEN pc' = "returned" /\ stop' = "no_ids"
             ELSE pc' = "loop" /\ stop' = ""
    /\ UNCHANGED <<mode, csvVars, apiVars, tableVars, result, batch_num, offset,
                   observed, request>>

\* after an iteration that did not break: the next one, or the end of the
\* for loop
NextIteration ==
    /\ batch_num' = batch_num + 1
    /\ IF batch_num + 1 < max_batches
       THEN pc' = "loop" /\ stop' = ""
       ELSE pc' = "returned" /\ stop' = "max_batches"

\* the except branch of the loop: the request raised RequestException and
\* the loop continues, with an offset that skips a page
FailedRequestSkipsPage ==
    /\ NextIteration
    /\ offset' = offset + limit
    /\ UNCHANGED <<state_map, observed>>

\* the except branch of the loop: the request raised RequestException and
\* the loop continues
FailedRequest ==
    /\ NextIteration
    /\ UNCHANGED <<state_map, observed, offset>>

\* one iteration of fetch_inspection_states' loop over the responses in
\* batches, at most max_rows records in all. ok = FALSE is a request that
\* raised RequestException
FetchInspectionStep(batches, max_rows) ==
    /\ pc = "loop"
    /\ batch_num < max_batches
    /\ \E ok \in BOOLEAN :
       \E inspections \in IF ok THEN batches ELSE {<<>>} :
          /\ ok => Len(observed) + Len(inspections) <= max_rows
          /\ request' = [n |-> request.n + 1, offset |-> offset, ok |-> ok]
          /\ IF ~ok
             THEN FailedRequest
             ELSE IF inspections = <<>>
             THEN /\ pc' = "returned" /\ stop' = "empty"
                  /\ UNCHANGED <<state_map, observed, offset, batch_num>>
             ELSE /\ state_map' = ApplyBatch(state_map, target_ids, inspections)
                  /\ observed' = observed \o inspections
                  /\ IF MappedEnough(state_map', target_ids)
                     THEN /\ pc' = "returned" /\ stop' = "mapped"
                          /\ UNCHANGED <<offset, batch_num>>
                     ELSE IF Len(inspections) < limit
                     THEN /\ pc' = "returned" /\ stop' = "short"
                          /\ UNCHANGED <<offset, batch_num>>
                     ELSE /\ offset' = offset + limit
                          /\ NextIteration
    /\ UNCHANGED <<mode, csvVars, all_violations, vbatch, violations, vidx,
                   tableVars, result, target_ids>>

\* an iteration of the loop: any response of up to limit rows, MaxSourceRows
\* rows in all; for the twenty identifiers, the page of ManySource at the
\* offset
FetchInspectionBatch ==
    /\ mode = "fetch"
    /\ IF target_ids = Range(ManyIds)
       THEN FetchInspectionStep({Page(ManySource, offset)}, Len(ManySource))
       ELSE FetchInspectionStep(SeqsUpTo(ApiInspectionRows, limit), MaxSourceRows)

NextFetch == FetchCall \/ FetchInspectionBatch

SpecFetch == InitFetch /\ [][NextFetch]_vars

\* the region of the last received inspection of uid that carries one
LastRegion(uid) ==
    LET hits == {i \in DOMAIN observed :
                    observed[i].unique_id = uid /\ observed[i].report_state # ""}
    IN  observed[CHOOSE i \in hits : \A j \in hits : j <= i].report_state

Seen(uid) ==
    \E i \in DOMAIN observed :
        observed[i].unique_id = uid /\ observed[i].report_state # ""

\* C5: an identifier of interest received more than once with different
\* regions, in one batch or across batches, maps to the region received last
C5_LastObservedWins ==
    mode = "fetch" =>
        /\ DOMAIN state_map = {uid \in target_ids : Seen(uid)}
        /\ \A uid \in DOMAIN state_map : state_map[uid] = LastRegion(uid)

\* an identifier received in two batches, with two different regions
C5_Witness ==
    /\ mode = "fetch"
    /\ \E i \in 1..limit : \E j \in (limit + 1)..Len(observed) :
          /\ observed[i].unique_id = observed[j].unique_id
          /\ observed[i].unique_id \in target_ids
          /\ observed[i].report_state # "" /\ observed[j].report_state # ""
          /\ observed[i].report_state # observed[j].report_state

Returned == mode = "fetch" /\ pc = "returned" /\ target_ids # {}

\* C6 as claimed: the loop stops only once every identifier of interest has a
\* region or the source is exhausted (an empty or a short batch)
C6_StopsOnlyWhenResolvedOrExhausted ==
    Returned => \/ DOMAIN state_map = target_ids
                \/ stop \in {"empty", "short"}

\* the identifiers of interest received with a region so far
SeenIds == {uid \in target_ids : Seen(uid)}

\* the last response was a full page: the rows received so far end limit
\* rows after the offset of the last request
LastPageFull == request.ok /\ Len(observed) = request.offset + limit

\* C6 as amended: the loop stops only once at least 95% of the identifiers of
\* interest have been received with a region, or the source is exhausted (the
\* last response was empty or short of a page), or max_batches requests have
\* been issued, failed ones included
C6_StopsOnlyWhenMappedExhaustedOrCapped ==
    Returned => \/ Cardinality(SeenIds) * 100 >= Cardinality(target_ids) * 95
                \/ request.ok /\ ~LastPageFull
                \/ request.n = max_batches

\* the loop stopped after a full page with nineteen of twenty identifiers
\* resolved, before the page that holds the twentieth and before max_batches
\* requests
C6_Witness ==
    /\ Returned /\ request.n < max_batches
    /\ LastPageFull
    /\ Cardinality(target_ids) = 20 /\ Cardinality(DOMAIN state_map) = 19
    /\ \E i \in (Len(observed) + 1)..Len(ManySource) :
          ManySource[i].unique_id \in target_ids \ DOMAIN state_map

(***************************************************************************)
(* The statistics over finalized tables (specification SpecStats)          *)
(*                                                                         *)
(* The tables are built by the aggregator itself, a run of equal records   *)
(* at a time: k_oos out-of-service records and k_other others of one       *)
(* state and month, processed one after the other.                         *)
(***************************************************************************)
\* three months of 2025 and, in the tables of process_violations, which has
\* no cutoff, January of the year 999
StatMonths == {202501, 202502, 202503, 99901}

StatStates == {"CA", "TX"}

\* out-of-service records of one state in one month
StatCounts(state) == IF state = "CA" THEN {0, 10, 15, 20, 30} ELSE {0, 5}

\* n records of one state and month, processed one after the other
\* (both branches are the same call: the test on next only makes each step's
\* table a value before the following step starts)
RECURSIVE Repeat(_, _, _, _, _)
Repeat(t, year_month, state, is_oos, n) ==
    LET next == Accumulate(t, year_month, state, is_oos)
    IN  IF n = 0 THEN t
        ELSE IF next.total_all > n THEN Repeat(next, year_month, state, is_oos, n - 1)
        ELSE Repeat(next, year_month, state, is_oos, n - 1)

InitStats ==
    /\ InitCommon
    /\ mode = "stats"
    /\ pc = "accumulate"

\* the aggregator consumes the records of one more state x month cell
StatsObserve ==
    /\ mode = "stats" /\ pc = "accumulate"
    /\ Len(Cells(state_monthly)) < MaxCells
    /\ \E state \in StatStates : \E year_month \in StatMonths :
       \E k_oos \in StatCounts(state) :
          /\ ~Has(Inner(state_monthly, state), year_month)
          /\ LET k_other == IF k_oos = 0 THEN 1 ELSE 0
             IN  SetTables(Repeat(Repeat(Tables, year_month, state, TRUE, k_oos),
                                  year_month, state, FALSE, k_other))
    /\ UNCHANGED <<mode, pc, csvVars, apiVars, result, fetchVars>>

\* generate_json over the tables, those process_inspections can return:
\* it keeps no month before 2025
StatsGenerateJson ==
    /\ mode = "stats" /\ pc = "accumulate"
    /\ \A ym \in Keys(monthly_data) : ym >= 202501
    /\ result' = GenerateJsonOf(Tables)
    /\ pc' = IF result'.raised THEN "raised_csv" ELSE "done_csv"
    /\ UNCHANGED <<mode, csvVars, apiVars, tableVars, fetchVars>>

\* the statistics part of process_violations over the tables, which adds
\* cells to state_monthly; raised_api: an exception escaped it
StatsProcessResult ==
    /\ mode = "stats" /\ pc = "accumulate"
    /\ result' = ProcessResultOf(Tables)
    /\ SetTables(TablesAfter(Tables, result'.exception))
    /\ pc' = IF result'.raised THEN "raised_api" ELSE "done_api"
    /\ UNCHANGED <<mode, csvVars, apiVars, fetchVars>>

NextStats == StatsObserve \/ StatsGenerateJson \/ StatsProcessResult

SpecStats == InitStats /\ [][NextStats]_vars

StatsDone == mode = "stats" /\ pc \in {"done_csv", "done_api"}

\* the monthly oos series, months ascending
Series == MonthlyOos(monthly_data, SortAsc(Keys(monthly_data)))

\* percentage change of a relative to b in tenths, 0 for b = 0
ChangeOrZero(a, b) == IF b = 0 THEN 0 ELSE Round1(a - b, b)

\* C9: mom_change leaves out the most recent month: with at least 3 months it
\* is the change of oos[-2] relative to oos[-3], rounded to one decimal; with
\* exactly 2 months it compares the latest two; with fewer it is 0
C9_MomChangeSkipsLatestMonth ==
    StatsDone =>
        LET n == Len(Series)
        IN  result.mom_change =
                IF n >= 3 THEN ChangeOrZero(Series[n - 1], Series[n - 2])
                ELSE IF n = 2 THEN ChangeOrZero(Series[2], Series[1])
                ELSE 0

\* the month whose count is the denominator of mom_change, 0 when there is none
BaseOos ==
    LET n == Len(Series)
    IN  IF pc = "done_csv" /\ n >= 3 THEN Series[n - 2]
        ELSE IF n >= 2 THEN Series[n - 1]
        ELSE 0

\* C10: deriving the statistics raises nothing, whatever the tables, empty
\* ones included, and a statistic whose denominator is zero is 0
C10_ZeroDenominators ==
    (mode = "stats" /\ pc # "accumulate") =>
        /\ ~result.raised
        /\ total_all = 0 => result.oos_rate = 0
        /\ monthly_data = <<>> => result.avg_per_month = 0
        /\ BaseOos = 0 => result.mom_change = 0
        /\ \A i \in DOMAIN result.biggest_movers.increases :
              result.biggest_movers.increases[i].previous > 0
        /\ \A i \in DOMAIN result.biggest_movers.decreases :
              result.biggest_movers.decreases[i].previous > 0

(***************************************************************************)
(* The peak month                                                          *)
(***************************************************************************)
\* the largest monthly out-of-service count of the tables
MaxMonthlyOos == CHOOSE c \in {monthly_data[i].oos : i \in DOMAIN monthly_data} :
                     \A i \in DOMAIN monthly_data : monthly_data[i].oos <= c

\* the months that reach it
PeakMonths == {monthly_data[i].k : i \in {j \in DOMAIN monthly_data :
                                             monthly_data[j].oos = MaxMonthlyOos}}

\* C11: peak_count is the maximum monthly oos count and peak_month is the
\* chronologically earliest month that reaches it, whatever order the months
\* were first observed in
C11_PeakIsEarliestMaximum ==
    (StatsDone /\ monthly_data # <<>>) =>
        /\ result.peak_count = MaxMonthlyOos
        /\ result.peak_month =
               Label(CHOOSE m \in PeakMonths : \A o \in PeakMonths : m <= o)

(***************************************************************************)
(* The biggest movers over finalized tables (specification SpecMovers)     *)
(*                                                                         *)
(* The tables are built by the aggregator itself, one state at a time: the *)
(* records of a state for three consecutive months, processed month by     *)
(* month.  A count of -1 is a month without a record of the state, 0 is    *)
(* one record that is not out of service, n > 0 is n out-of-service        *)
(* records.                                                                *)
(***************************************************************************)
MaxRegions == 4

MoverMonths == <<202501, 202502, 202503>>

MoverStates == {"CA", "TX", "NY", "FL"}

\* the counts of a state in the i-th month, -1 for no record: FL and NY
\* have none in the third month
MoverCounts(state, i) ==
    IF state = "FL"
    THEN CASE i = 1 -> {5}
           [] i = 2 -> {0, 10}
           [] OTHER -> {-1}
    ELSE IF state = "NY"
    THEN CASE i = 1 -> {-1, 5}
           [] i = 2 -> {0, 5, 10}
           [] OTHER -> {-1}
    ELSE CASE i = 1 -> {-1, 3, 5}
           [] i = 2 -> {0, 5, 10}
           [] OTHER -> {-1, 5}

\* the records of one state and month
MonthRecords(t, year_month, state, c) ==
    IF c < 0 THEN t
    ELSE IF c = 0 THEN Accumulate(t, year_month, state, FALSE)
    ELSE Repeat(t, year_month, state, TRUE, c)

InitMovers ==
    /\ InitCommon
    /\ mode = "movers"
    /\ pc = "accumulate"

\* the aggregator consumes the records of one more state
MoversObserve ==
    /\ mode = "movers" /\ pc = "accumulate"
    /\ Len(state_data) < MaxRegions
    /\ \E state \in MoverStates \ Keys(state_data) :
       \E c1 \in MoverCounts(state, 1) :
       \E c2 \in MoverCounts(state, 2) :
       \E c3 \in MoverCounts(state, 3) :
          SetTables(MonthRecords(MonthRecords(MonthRecords(Tables,
                        MoverMonths[1], state, c1),
                        MoverMonths[2], state, c2),
                        MoverMonths[3], state, c3))
    /\ UNCHANGED <<mode, pc, csvVars, apiVars, result, fetchVars>>

\* generate_json over the tables
MoversGenerateJson ==
    /\ mode = "movers" /\ pc = "accumulate"
    /\ result' = GenerateJsonOf(Tables)
    /\ pc' = "done_csv"
    /\ UNCHANGED <<mode, csvVars, apiVars, tableVars, fetchVars>>

\* the statistics part of process_violations over the tables, which adds
\* cells to state_monthly
MoversProcessResult ==
    /\ mode = "movers" /\ pc = "accumulate"
    /\ result' = ProcessResultOf(Tables)
    /\ SetTables(TablesAfter(Tables, result'.exception))
    /\ pc' = "done_api"
    /\ UNCHANGED <<mode, csvVars, apiVars, fetchVars>>

NextMovers == MoversObserve \/ MoversGenerateJson \/ MoversProcessResult

SpecMovers == InitMovers /\ [][NextMovers]_vars

MoversDone == mode = "movers" /\ pc \in {"done_csv", "done_api"}

\* the months of the tables, ascending
SortedMonths == SortAsc(Keys(monthly_data))

\* the out-of-service count of a state in a month
OosOf(state, year_month) == Bucket(Inner(state_monthly, state), year_month).oos

\* the entries of both lists of biggest_movers
Listed == Range(result.biggest_movers.increases)
              \cup Range(result.biggest_movers.decreases)

\* the month the pipeline at hand takes the previous count from, 0 for none
PreviousMonth ==
    LET n == Len(SortedMonths)
    IN  IF pc = "done_csv" THEN (IF n >= 3 THEN SortedMonths[n - 2] ELSE 0)
        ELSE (IF n >= 2 THEN SortedMonths[n - 1] ELSE 0)

\* C12: every region listed in biggest_movers has a previous-month oos count
\* of at least 5, and a region whose previous-month count is below 5 is in
\* neither list
C12_MoversMinimumVolume ==
    MoversDone =>
        /\ \A e \in Listed : e.previous >= 5
        /\ \A state \in Keys(state_monthly) :
              OosOf(state, PreviousMonth) < 5 =>
                  \A e \in Listed : e.state # state

\* C13: biggest movers compares each region's count in sorted_months[-2]
\* (current) with its count in sorted_months[-3] (previous); with fewer than
\* 3 months both lists are empty
C13_MoversReferenceMonths ==
    MoversDone =>
        LET n == Len(SortedMonths)
        IN  IF n < 3 THEN Listed = {}
            ELSE \A e \in Listed :
                    /\ e.current = OosOf(e.state, SortedMonths[n - 1])
                    /\ e.previous = OosOf(e.state, SortedMonths[n - 2])

\* the qualifying regions of the pipeline at hand, ranked by change descending
Ranking ==
    IF pc = "done_csv" THEN CsvSortedChanges(state_monthly, SortedMonths)
    ELSE ApiSortedChanges(state_monthly, SortedMonths)

\* C14: increases is the top 3 of the ranking and decreases its bottom 3,
\* most negative first; with fewer than 3 qualifying regions a list holds all
\* of them
C14_MoversTopAndBottomThree ==
    MoversDone =>
        /\ result.biggest_movers.increases = Take(Ranking, 3)
        /\ result.biggest_movers.decreases = Reverse(TakeLast(Ranking, 3))

\* C18: every entry of increases has change > 0, every entry of decreases
\* has change < 0, and no region is in both lists
C18_MoversSigns ==
    MoversDone =>
        /\ \A e \in Range(result.biggest_movers.increases) : e.change > 0
        /\ \A e \in Range(result.biggest_movers.decreases) : e.change < 0
        /\ \A e \in Range(result.biggest_movers.increases) :
           \A f \in Range(result.biggest_movers.decreases) : e.state # f.state

(***************************************************************************)
(* The analysis-start year (specification Spec)                            *)
(***************************************************************************)
\* an inspection row, resp. a violation, dated before 2025
EarlyInspection(r) ==
    r.insp_date # <<>> /\ CsvParseDate(Strip(r.insp_date)).ok
        /\ CsvParseDate(Strip(r.insp_date)).year < 2025

EarlyViolation(v) ==
    v.insp_date # <<>> /\ ApiParseDate(v.insp_date).ok
        /\ ApiParseDate(v.insp_date).year < 2025

\* the tables of the run over the input without the records dated before 2025
TablesWithoutEarly ==
    IF mode = "csv"
    THEN InspectAll(EmptyTables, LoadAll(EmptyMap, vrows).elp,
                    SelectSeq(irows, LAMBDA r : ~EarlyInspection(r))).tables
    ELSE ProcessViolations(Join(SelectSeq(all_violations,
                                          LAMBDA v : ~EarlyViolation(v)),
                                state_map))

\* C15: the aggregation leaves out a record dated before 2025: no bucket has
\* a month before 2025-01 and the finished tables are those of the input
\* without such records, in the CSV and in the API pipeline
C15_BeforeStartYearExcluded ==
    /\ \A ym \in Keys(monthly_data) \cup CellMonths(state_monthly) : ym >= 202501
    /\ Done => Tables = TablesWithoutEarly

(***************************************************************************)
(* The violation classifiers (specification SpecClassify)                  *)
(*                                                                         *)
(* One row of violations.csv goes through load_elp_violations' is_elp, or  *)
(* one record of the violations dataset through fetch_elp_violations'      *)
(* filter.  A missing CSV field is the empty text (row.get(...) or '');    *)
(* a missing section_desc reaches the filter as str(None), "None".         *)
(***************************************************************************)
\* PART_NO texts
ClassifyParts ==
    {Text(<<"3", "9", "1">>),
     Text(<<" ", "3", "9", "1", " ">>),
     Text(<<"3", "9", "2">>),
     Text(<<"3", "9", "1", "0">>),
     <<11>> \o Text(<<"3", "9", "1">>) \o <<160>>,
     <<>>}

\* PART_NO_SECTION texts (U+0085 and U+001F are whitespace)
ClassifySections ==
    {Text(<<"1", "1", "(", "B", ")", "(", "2", ")">>),
     Text(<<"1", "1", "(", "b", ")", "(", "2", ")">>),
     Text(<<" ", "1", "1", "(", "B", ")", "(", "2", ")", " ">>),
     Text(<<"1", "1", "B", "2">>),
     Text(<<"1", "1", "b", "2">>),
     Text(<<"1", "1", "B", "2", "-", "S">>),
     Text(<<"1", "1", "b", "2", "-", "z">>),
     Text(<<"1", "1", "B", "2", "-", "Q">>),
     Text(<<"1", "1", "B", "3">>),
     Text(<<"1", "1", "(", "B", ")", "(", "3", ")">>),
     Text(<<"1", "1">>),
     <<133>> \o Text(<<"1", "1", "(", "b", ")", "(", "2", ")">>) \o <<31>>,
     <<>>}

\* Viol_Code texts: the three digits of the part, then the section
ClassifyCodes ==
    {Text(<<"3", "9", "1", "1", "1", "B", "2">>),
     Text(<<"3", "9", "1", ".", "1", "1", "(", "b", ")", "(", "2", ")">>),
     Text(<<"3", "9", "1", "1", "1", "B", "2", "-", "S">>),
     Text(<<"3", "9", "1", "1", "1", "B", "3">>),
     Text(<<"3", "9", "2", "1", "1">>),
     Text(<<"3", "9", "2", "2">>),
     <<>>}

\* Section_Desc texts (U+0130, the dotted capital I, has the two-character
\* lower case "i" U+0307)
ClassifyDescs ==
    {Text(<<"N", "o", " ", "E", "n", "g", "l", "i", "s", "h">>),
     Text(<<"D", "r", "i", "v", "e", "r", " ", "c", "a", "n", "n", "o", "t", " ", "r", "e", "a", "d", " ", "o", "r", " ", "s", "p", "e", "a", "k", " ", "t", "h", "e", " ", "E", "N", "G", "L", "I", "S", "H", " ", "l", "a", "n", "g", "u", "a", "g", "e">>),
     Text(<<"e", "n", "g", "l", "i", "s", "h">>),
     Text(<<"N", "o", " ", "C", "D", "L">>),
     Text(<<"E", "n", "g", "l", "i", "s", "h", " ", "t", "e", "s", "t">>),
     Text(<<"D", "r", "i", "v", "e", "r", " ", "n", "o", "t", " ", "p", "r", "o", "f", "i", "c", "i", "e", "n", "t">>),
     Text(<<"N", "o", " ", "E", "N", "G", "L">>) \o <<304>> \o Text(<<"S", "H">>),
     Text(<<"N", "o", "n", "e">>)}

\* one row of violations.csv goes through the classifier of load_elp_violations
ClassifyCsvRow ==
    /\ mode = "classify" /\ pc = "read"
    /\ \E part \in ClassifyParts : \E sec \in ClassifySections :
          LET row == CsvViolation(part, sec, DateJan, "1", OosY)
          IN  result' = [kind |-> "csv", part |-> part, section |-> sec,
                         is_elp |-> IsElp(row)]
    /\ pc' = "classified"
    /\ UNCHANGED <<mode, csvVars, apiVars, tableVars, fetchVars>>

\* one record of the violations dataset goes through the filter of
\* fetch_elp_violations
ClassifyApiRecord ==
    /\ mode = "classify" /\ pc = "read"
    /\ \E code \in ClassifyCodes : \E desc \in ClassifyDescs :
          LET record == ApiViolation("1", DateFeb, OosTRUE, desc)
          IN  result' = [kind |-> "api", part |-> Take(code, 3),
                         section |-> IF Len(code) > 3
                                     THEN SubSeq(code, 4, Len(code)) ELSE <<>>,
                         section_desc |-> desc,
                         is_elp |-> FilterElp(<<record>>) # <<>>]
    /\ pc' = "classified"
    /\ UNCHANGED <<mode, csvVars, apiVars, tableVars, fetchVars>>

InitClassify ==
    /\ InitCommon
    /\ mode = "classify"
    /\ pc = "read"

NextClassify == ClassifyCsvRow \/ ClassifyApiRecord

SpecClassify == InitClassify /\ [][NextClassify]_vars

\* the section text case-folded, without surrounding blanks and without a
\* leading dot
NormalSection(sec) ==
    LET s == Upper(Strip(sec))
    IN  IF s # <<>> /\ Head(s) = Ord(".") THEN Tail(s) ELSE s

\* the forms of the target section the specification lists
ListedForms ==
    {Sec11b2Canonical, Sec11B2,
     Sec11B2 \o Text(<<"-", "S">>), Sec11B2 \o Text(<<"-", "Z">>)}

\* C16: a row is marked as target category exactly when its part is 391 and
\* its section, case-folded, is 11(B)(2) or a variant of the base code 11B2:
\* a marked row has part 391 and such a section (11B3 and part 392 are
\* rejected), and a row of part 391 with one of the listed forms is marked
C16_ClassifierByPartAndSection ==
    (mode = "classify" /\ pc = "classified") =>
        LET section == NormalSection(result.section)
        IN  /\ result.is_elp =>
                  /\ Strip(result.part) = Txt391
                  /\ section = Sec11b2Canonical \/ StartsWith(section, Sec11B2)
            /\ (Strip(result.part) = Txt391 /\ section \in ListedForms)
                  => result.is_elp

(***************************************************************************)
(* The two pagination loops over long sources (specification SpecPaging)   *)
(*                                                                         *)
(* fetch_all_elp_data's loop and fetch_inspection_states' loop, over       *)
(* sources long enough for max_batches full batches: a full batch has one  *)
(* content, so that the records received are told by their number.         *)
(* fetch_inspection_states also runs over the short sources of SpecFetch.  *)
(***************************************************************************)
\* responses of the violations dataset: empty, short, full
PageViolationBatches ==
    LET elp   == ApiViolation("1", DateFeb, OosTRUE, TxtNoEnglish)
        other == ApiViolation("1", DateFeb, OosTRUE, TxtNoLicense)
    IN  {<<>>, <<elp>>, <<other>>,
         [i \in 1..limit |-> IF i = 1 THEN elp ELSE other]}

\* responses of the inspections dataset: empty, short, full (a full batch
\* holds no inspection of interest)
PageInspectionBatches ==
    LET hit   == ApiInspection("1", "CA")
        other == ApiInspection("", "CA")
    IN  {<<>>, <<hit>>, <<other>>, [i \in 1..limit |-> other]}

PageViolations ==
    /\ mode = "page_violations" /\ pc = "fetch"
    /\ FetchViolationsStep(PageViolationBatches, limit * max_batches_violations)

PageInspections ==
    /\ mode = "page_inspections"
    /\ FetchInspectionStep(PageInspectionBatches, limit * max_batches)

InitPaging ==
    /\ InitCommon
    /\ mode \in {"page_violations", "page_inspections", "fetch"}
    /\ pc = IF mode = "page_violations" THEN "fetch" ELSE "call"

NextPaging ==
    \/ PageViolations
    \/ FetchCall
    \/ PageInspections
    \/ FetchInspectionBatch

\* a loop that can take a step takes one: the program keeps running
SpecPaging == InitPaging /\ [][NextPaging]_vars /\ WF_vars(NextPaging)

\* the loop at hand is over
LoopOver == pc \in {"states", "returned"}

\* a step that issues a request
Requests == request'.n = request.n + 1

InspectionLoop == mode \in {"page_inspections", "fetch"}

\* C17: both loops end whatever the source answers; fetch_inspection_states
\* issues at most 30 requests and fetch_all_elp_data at most 25; a failed
\* inspection request changes neither the identifier -> region map nor the
\* offset, and the next request asks for the same offset; the offsets
\* requested never decrease
C17_PaginationTerminates ==
    /\ <>LoopOver
    /\ [](request.n <= IF InspectionLoop THEN max_batches
                       ELSE max_batches_violations)
    /\ [][(Requests /\ InspectionLoop /\ ~request'.ok)
              => (state_map' = state_map /\ offset' = offset)]_vars
    /\ [][(Requests /\ InspectionLoop /\ request.n > 0 /\ ~request.ok)
              => request'.offset = request.offset]_vars
    /\ [][(Requests /\ request.n > 0) => request'.offset >= request.offset]_vars

\* fetch_inspection_states returned after 30 requests, the last one failed,
\* with a region found and a page turned before
C17_Witness ==
    /\ mode = "fetch" /\ pc = "returned"
    /\ request.n = max_batches /\ ~request.ok
    /\ state_map # EmptyMap /\ request.offset > 0

====
